---- MODULE Spec2Model ----
(***************************************************************************)
(* Verification model of ptext's LowLevelTokenizer                         *)
(* (src/ptext/io/read/tokenize/low_level_tokenizer.py) and of the text     *)
(* reconstruction classes GlyphLine, TextRenderEvent, LineRenderEvent and  *)
(* LeftToRightComparator.                                                  *)
(*                                                                         *)
(* Bytes are latin-1 code points (integers); a text is a sequence of       *)
(* code points.  The byte source is an in-memory stream: `input` is its    *)
(* content and `pos` its zero-based cursor, so the byte at offset p is     *)
(* input[p+1].  `history` logs every next_token() call, `last` is the      *)
(* outcome of the latest tokenizer operation and `look` the local state of *)
(* a caller doing lookahead-and-rewind.                                    *)
(***************************************************************************)
EXTENDS Integers, Sequences, FiniteSets, TLC

VARIABLES input, pos, history, last, look,
          gargs, gline, gtrace, gres,
          evargs, ev, evres, evop,
          contained_events, lres,
          obj0, obj1, obj2, cmpres, order

tokVars == <<input, pos, history, last, look>>

glyphVars == <<gargs, gline, gtrace, gres>>

eventVars == <<evargs, ev, evres, evop>>

lineVars == <<contained_events, lres>>

cmpVars == <<obj0, obj1, obj2, cmpres, order>>

vars == <<tokVars, glyphVars, eventVars, lineVars, cmpVars>>

\* what the operations of one component leave alone
notTokVars == <<glyphVars, eventVars, lineVars, cmpVars>>
notGlyphVars == <<tokVars, eventVars, lineVars, cmpVars>>
notEventVars == <<tokVars, glyphVars, lineVars, cmpVars>>
notLineVars == <<tokVars, glyphVars, eventVars, cmpVars>>
notCmpVars == <<tokVars, glyphVars, eventVars, lineVars>>

(* ---------------------------- bounds ---------------------------------- *)
MaxLen == 3
MaxCalls == 6

(* ------------------------- byte constants ----------------------------- *)
\* the empty string returned by read(1) at end of stream (len(ch) == 0)
NoChar == -1
\* value of an exception's byte_offset when none was given
Null == -1

LF == 10
SP == 32
PERCENT == 37
LPAREN == 40
RPAREN == 41
SLASH == 47
LT == 60
GT == 62
LBRACKET == 91
BACKSLASH == 92
RBRACKET == 93

\* the bytes every input of length <= MaxLen is drawn from: one or two
\* members of every character class the dispatch distinguishes
Alphabet == {LF, SP, PERCENT, LPAREN, RPAREN, SLASH, 49, LT, GT, LBRACKET, BACKSLASH, RBRACKET, 97}

\* longer inputs: the documented examples and a nested string with an
\* escaped bracket
ExFooBar == <<47, 70, 111, 111, 47, 66, 97, 114>>
ExNumber == <<49, 50, 51, 46, 52, 53>>
ExArray == <<91, 49, 32, 50, 93>>
ExDict == <<60, 60, 62, 62>>
ExEscaped == <<40, 97, 92, 41, 98, 41>>
ExUnterminated == <<40, 117, 110, 116>>
ExBadEscape == <<40, 98, 97, 100, 92>>
ExNested == <<40, 97, 40, 98, 41, 92, 40, 99, 41, 32, 41>>

Examples == {ExFooBar, ExNumber, ExArray, ExDict, ExEscaped, ExUnterminated, ExBadEscape, ExNested}

RECURSIVE SeqsUpTo(_)
SeqsUpTo(n) ==
  IF n = 0 THEN {<<>>}
  ELSE LET S == SeqsUpTo(n - 1)
       IN S \cup {Append(s, b) : s \in {t \in S : Len(t) = n - 1}, b \in Alphabet}

Inputs == SeqsUpTo(MaxLen) \cup Examples

(* ------------------------- character classes -------------------------- *)
DelimiterCodes == {-1, 0, 9, 10, 12, 13, 32, 37, 40, 41, 47, 60, 62, 91, 93}

_is_delimiter(ch) == ch \in DelimiterCodes

WhitespaceCodes == {0, 9, 10, 12, 13, 32}

_is_whitespace(ch) == ch \in WhitespaceCodes

\* the characters of "-+.0123456789"
NumberCodes == {45, 43, 46} \cup (48..57)

\* python's  ch in "-+.0123456789" : substring test, so the empty string
\* (NoChar) is "in" the class too
InNumberClass(ch) == ch = NoChar \/ ch \in NumberCodes

(* --------------------------- byte source ------------------------------ *)
\* io_source.read(1).decode("latin-1"): the byte under the cursor and the
\* advanced cursor, or the empty string and the unchanged cursor at the end
_next_char(inp, p) ==
  IF p < Len(inp) THEN [ch |-> inp[p + 1], pos |-> p + 1]
  ELSE [ch |-> NoChar, pos |-> p]

\* mutant: the push-back seek is lost
_prev_char_lost(p) == p

\* io_source.seek(-1, SEEK_CUR)
_prev_char(p) == p - 1

(* ------------------------------ tokens -------------------------------- *)
Token(byte_offset, token_type, text) ==
  [byte_offset |-> byte_offset, token_type |-> token_type, text |-> text]

\* placeholder in a call's outcome when the call produced no Token
NoToken == Token(Null, "NONE", <<>>)

\* outcomes of one next_token() call: a returned Token, the returned None,
\* or a raised exception with its byte_offset; each with the cursor left
Returned(tok, p) ==
  [ret |-> "token", token |-> tok, pos |-> p, byte_offset |-> Null]

ReturnedNone(p) ==
  [ret |-> "none", token |-> NoToken, pos |-> p, byte_offset |-> Null]

PDFSyntaxError(byte_offset, p) ==
  [ret |-> "PDFSyntaxError", token |-> NoToken, pos |-> p, byte_offset |-> byte_offset]

PDFEOFError(p) ==
  [ret |-> "PDFEOFError", token |-> NoToken, pos |-> p, byte_offset |-> Null]

(* ------------------------ next_token branches ------------------------- *)
\* while len(ch) > 0 and self._is_whitespace(ch): ch = self._next_char()
RECURSIVE SkipWhitespace(_, _)
SkipWhitespace(inp, r) ==
  IF r.ch # NoChar /\ _is_whitespace(r.ch)
  THEN SkipWhitespace(inp, _next_char(inp, r.pos))
  ELSE r

\* mutant: only whitespace ends a name
RECURSIVE NameLoop_whitespace(_, _, _)
NameLoop_whitespace(inp, p, out_str) ==
  LET r == _next_char(inp, p)
  IN IF r.ch = NoChar THEN [ch |-> r.ch, pos |-> r.pos, out_str |-> out_str]
     ELSE IF _is_whitespace(r.ch) THEN [ch |-> r.ch, pos |-> r.pos, out_str |-> out_str]
     ELSE NameLoop_whitespace(inp, r.pos, Append(out_str, r.ch))

\* the `while True` loop of the NAME branch: the last character read, the
\* cursor and the accumulated text
RECURSIVE NameLoop(_, _, _)
NameLoop(inp, p, out_str) ==
  LET r == _next_char(inp, p)
  IN IF r.ch = NoChar THEN [ch |-> r.ch, pos |-> r.pos, out_str |-> out_str]
     ELSE IF _is_delimiter(r.ch) THEN [ch |-> r.ch, pos |-> r.pos, out_str |-> out_str]
     ELSE NameLoop(inp, r.pos, Append(out_str, r.ch))

\* NAME branch; r is the `/` just read and the cursor after it
NameToken(inp, r) ==
  LET out_pos == r.pos - 1
      l == NameLoop(inp, r.pos, <<SLASH>>)
  IN Returned(Token(out_pos, "NAME", l.out_str),
              IF l.ch # NoChar THEN _prev_char(l.pos) ELSE l.pos)

\* mutant: the error is tagged with the offset of the first `>`
EndDictToken_out_pos(inp, r) ==
  LET out_pos == r.pos - 1
      n == _next_char(inp, r.pos)
  IN IF n.ch # GT THEN PDFSyntaxError(out_pos, n.pos)
     ELSE Returned(Token(out_pos, "END_DICT", <<GT, GT>>), n.pos)

\* END_DICT branch; r is the `>` just read
EndDictToken(inp, r) ==
  LET out_pos == r.pos - 1
      n == _next_char(inp, r.pos)
  IN IF n.ch # GT THEN PDFSyntaxError(n.pos, n.pos)
     ELSE Returned(Token(out_pos, "END_DICT", <<GT, GT>>), n.pos)

\* while len(ch) != 0 and ch != "\r" and ch != "\n" of the COMMENT branch
RECURSIVE CommentLoop(_, _, _)
CommentLoop(inp, r, out_str) ==
  IF r.ch # NoChar /\ r.ch # 13 /\ r.ch # 10
  THEN CommentLoop(inp, _next_char(inp, r.pos), Append(out_str, r.ch))
  ELSE [ch |-> r.ch, pos |-> r.pos, out_str |-> out_str]

\* COMMENT branch; r is the `%` just read
CommentToken(inp, r) ==
  LET out_pos == r.pos - 1
      l == CommentLoop(inp, r, <<>>)
  IN Returned(Token(out_pos, "COMMENT", l.out_str),
              IF l.ch # NoChar THEN _prev_char(l.pos) ELSE l.pos)

\* mutant: the closing `>` is consumed but not copied
RECURSIVE HexLoop_exclusive(_, _, _)
HexLoop_exclusive(inp, p, out_str) ==
  LET r == _next_char(inp, p)
  IN IF r.ch = NoChar THEN [ch |-> r.ch, pos |-> r.pos, out_str |-> out_str]
     ELSE IF r.ch = GT THEN [ch |-> r.ch, pos |-> r.pos, out_str |-> out_str]
     ELSE HexLoop_exclusive(inp, r.pos, Append(out_str, r.ch))

\* the `while True` loop of the HEX_STRING branch
RECURSIVE HexLoop(_, _, _)
HexLoop(inp, p, out_str) ==
  LET r == _next_char(inp, p)
  IN IF r.ch = NoChar THEN [ch |-> r.ch, pos |-> r.pos, out_str |-> out_str]
     ELSE IF r.ch = GT THEN [ch |-> r.ch, pos |-> r.pos, out_str |-> Append(out_str, r.ch)]
     ELSE HexLoop(inp, r.pos, Append(out_str, r.ch))

\* "<" + ch, where ch may be the empty string
HexStart(ch) == IF ch = NoChar THEN <<LT>> ELSE <<LT, ch>>

\* HEX_STRING OR DICT branch; r is the `<` just read
HexOrDictToken(inp, r) ==
  LET out_pos == r.pos - 1
      n == _next_char(inp, r.pos)
  IN IF n.ch = LT THEN Returned(Token(out_pos, "START_DICT", <<LT, LT>>), n.pos)
     ELSE IF n.ch = GT THEN Returned(Token(out_pos, "HEX_STRING", <<LT, GT>>), n.pos)
     ELSE LET l == HexLoop(inp, n.pos, HexStart(n.ch))
          IN Returned(Token(out_pos, "HEX_STRING", l.out_str), l.pos)

\* while len(ch) != 0 and ch in "-+.0123456789" of the NUMBER branch
RECURSIVE NumberLoop(_, _, _)
NumberLoop(inp, r, out_str) ==
  IF r.ch # NoChar /\ InNumberClass(r.ch)
  THEN NumberLoop(inp, _next_char(inp, r.pos), Append(out_str, r.ch))
  ELSE [ch |-> r.ch, pos |-> r.pos, out_str |-> out_str]

\* NUMBER branch; r is the character that passed  ch in "-+.0123456789"
NumberToken(inp, r) ==
  LET out_pos == r.pos - 1
      l == NumberLoop(inp, r, <<>>)
  IN Returned(Token(out_pos, "NUMBER", l.out_str),
              IF l.ch # NoChar THEN _prev_char(l.pos) ELSE l.pos)

\* mutant: a backslash is an ordinary byte, so an escaped bracket counts
RECURSIVE StringLoop_no_escape(_, _, _, _)
StringLoop_no_escape(inp, p, out_str, bracket_nesting_level) ==
  LET r == _next_char(inp, p)
  IN IF r.ch = NoChar
     THEN [ch |-> r.ch, pos |-> r.pos, out_str |-> out_str]
     ELSE LET level == IF r.ch = LPAREN THEN bracket_nesting_level + 1
                       ELSE IF r.ch = RPAREN THEN bracket_nesting_level - 1
                       ELSE bracket_nesting_level
          IN IF level = 0
             THEN [ch |-> r.ch, pos |-> r.pos, out_str |-> Append(out_str, r.ch)]
             ELSE StringLoop_no_escape(inp, r.pos, Append(out_str, r.ch), level)

\* the `while True` loop of the STRING branch: the last character read, the
\* cursor, the accumulated text and bracket_nesting_level
RECURSIVE StringLoop(_, _, _, _)
StringLoop(inp, p, out_str, bracket_nesting_level) ==
  LET r == _next_char(inp, p)
  IN IF r.ch = NoChar
     THEN [ch |-> r.ch, pos |-> r.pos, out_str |-> out_str]
     ELSE IF r.ch = BACKSLASH
     THEN LET e == _next_char(inp, r.pos)
          IN StringLoop(inp, e.pos,
                        out_str \o (IF e.ch = NoChar THEN <<BACKSLASH>> ELSE <<BACKSLASH, e.ch>>),
                        bracket_nesting_level)
     ELSE LET level == IF r.ch = LPAREN THEN bracket_nesting_level + 1
                       ELSE IF r.ch = RPAREN THEN bracket_nesting_level - 1
                       ELSE bracket_nesting_level
          IN IF level = 0
             THEN [ch |-> r.ch, pos |-> r.pos, out_str |-> Append(out_str, r.ch)]
             ELSE StringLoop(inp, r.pos, Append(out_str, r.ch), level)

\* out_str.endswith("\\")
EndsWithBackslash(out_str) == Len(out_str) > 0 /\ out_str[Len(out_str)] = BACKSLASH

\* mutant: end of stream ends the string like a closing bracket
StringToken_partial(inp, r) ==
  LET out_pos == r.pos - 1
      l == StringLoop(inp, r.pos, <<LPAREN>>, 1)
  IN IF EndsWithBackslash(l.out_str) THEN PDFSyntaxError(l.pos, l.pos)
     ELSE Returned(Token(out_pos, "STRING", l.out_str), l.pos)

\* STRING branch; r is the `(` just read
StringToken(inp, r) ==
  LET out_pos == r.pos - 1
      l == StringLoop(inp, r.pos, <<LPAREN>>, 1)
  IN IF l.ch = NoChar THEN PDFEOFError(l.pos)
     ELSE IF EndsWithBackslash(l.out_str) THEN PDFSyntaxError(l.pos, l.pos)
     ELSE Returned(Token(out_pos, "STRING", l.out_str), l.pos)

\* while len(ch) != 0 and not self._is_delimiter(ch) of the OTHER branch
RECURSIVE OtherLoop(_, _, _)
OtherLoop(inp, r, out_str) ==
  IF r.ch # NoChar /\ ~_is_delimiter(r.ch)
  THEN OtherLoop(inp, _next_char(inp, r.pos), Append(out_str, r.ch))
  ELSE [ch |-> r.ch, pos |-> r.pos, out_str |-> out_str]

\* OTHER branch; r is the character no other branch took
OtherToken(inp, r) ==
  LET out_pos == r.pos - 1
      l == OtherLoop(inp, r, <<>>)
  IN Returned(Token(out_pos, "OTHER", l.out_str),
              IF l.ch # NoChar THEN _prev_char(l.pos) ELSE l.pos)

\* next_token() called with the cursor at p: its outcome and the cursor left
next_token(inp, p) ==
  LET first == _next_char(inp, p)
      r == SkipWhitespace(inp, first)
  IN IF first.ch = NoChar THEN ReturnedNone(first.pos)
     ELSE IF r.ch = LBRACKET THEN Returned(Token(r.pos - 1, "START_ARRAY", <<LBRACKET>>), r.pos)
     ELSE IF r.ch = RBRACKET THEN Returned(Token(r.pos - 1, "END_ARRAY", <<RBRACKET>>), r.pos)
     ELSE IF r.ch = SLASH THEN NameToken(inp, r)
     ELSE IF r.ch = GT THEN EndDictToken(inp, r)
     ELSE IF r.ch = PERCENT THEN CommentToken(inp, r)
     ELSE IF r.ch = LT THEN HexOrDictToken(inp, r)
     ELSE IF InNumberClass(r.ch) THEN NumberToken(inp, r)
     ELSE IF r.ch = LPAREN THEN StringToken(inp, r)
     ELSE OtherToken(inp, r)

\* number of iterations of next_token's whitespace loop from cursor p
\* (the whitespace bytes the call reads and drops)
WhitespaceSkipped(inp, p) ==
  LET r == SkipWhitespace(inp, _next_char(inp, p))
  IN IF r.ch = NoChar THEN r.pos - p ELSE r.pos - 1 - p

\* what the caller of next_token() at cursor p observes: where the cursor
\* was, how many whitespace bytes were dropped and what came back
CallRecord(inp, p) ==
  LET out == next_token(inp, p)
  IN [from |-> p, ws |-> WhitespaceSkipped(inp, p), ret |-> out.ret,
      token |-> out.token, pos |-> out.pos, byte_offset |-> out.byte_offset]

\* what next_token() gives at every cursor position of inp
NextTokenAt(inp) == [q \in 0..Len(inp) |-> CallRecord(inp, q)]

\* the loop of next_non_comment_token(): the next_token() calls made from
\* cursor p, in order, until one gives something other than a COMMENT
RECURSIVE SkipComments(_, _)
SkipComments(at, p) ==
  IF at[p].ret = "token" /\ at[p].token.token_type = "COMMENT"
  THEN <<at[p]>> \o SkipComments(at, at[p].pos)
  ELSE <<at[p]>>

\* the next_token() calls next_non_comment_token() makes from cursor p, in
\* order; the last one is what it returns (or the exception it lets through)
next_non_comment_token(inp, p) == SkipComments(NextTokenAt(inp), p)

SEEK_SET == 0
SEEK_CUR == 1
SEEK_END == 2

\* mutant: whence is dropped, every seek is relative to the cursor
seek_relative(inp, p, offset, whence) == IF p + offset < 0 THEN 0 ELSE p + offset

\* io_source.seek(pos, whence) on the byte source with its cursor at p: the
\* new absolute position
seek(inp, p, offset, whence) ==
  IF whence = SEEK_SET THEN offset
  ELSE IF whence = SEEK_CUR THEN (IF p + offset < 0 THEN 0 ELSE p + offset)
  ELSE (IF Len(inp) + offset < 0 THEN 0 ELSE Len(inp) + offset)

\* io_source.tell()
tell(p) == p

(* ------------------------------ decimals ------------------------------ *)
\* The numbers of the text state are python Decimals. A Decimal is modelled
\* as the pair (n, x) that stands for (n + x * r) / Scale, where r > 0 is the
\* relative excess of the float literal in Decimal(0.001) over 1/1000
\* (Decimal(0.001) is 0.001000000000000000020816..., not 0.001). Two
\* Decimals are equal iff both components are.
Scale == 100000

\* Decimal(k) of an integer k
Dec(k) == [n |-> k * Scale, x |-> 0]

\* Decimal(0.001), built from the float 0.001
Decimal_0_001 == [n |-> Scale \div 1000, x |-> Scale \div 1000]

DecAdd(a, b) == [n |-> a.n + b.n, x |-> a.x + b.x]
DecSub(a, b) == [n |-> a.n - b.n, x |-> a.x - b.x]

\* k * d for an integer-valued Decimal k
DecTimesInt(k, d) == [n |-> k * d.n, x |-> k * d.x]

\* d * (hs / Decimal(100)) for an integer-valued Decimal hs
DecTimesPercent(d, hs) == [n |-> (d.n * hs) \div 100, x |-> (d.x * hs) \div 100]

(* -------------------------------- fonts -------------------------------- *)
\* character_identifier_to_unicode() returning None
NoneStr == <<Null>>

\* the replacement character U+FFFD
REPLACEMENT == 65533

\* The Font is an input of GlyphLine. Latin1 maps every code 0..255 to the one
\* character with that code point, width 500, and no code above 255;
\* IdentityH maps the two-byte codes only; Mixed maps a few codes of both
\* kinds (8224 = 32 * 256 + 32 to a space, 16705 = 65 * 256 + 65 to U+03A9,
\* the latter without a width);
\* Empty maps nothing; Widthless maps like Latin1 but knows no width;
\* Ligature maps 65 to three characters and 32 to the empty string.
Fonts == {"Latin1", "IdentityH", "Mixed", "Empty", "Widthless", "Ligature"}

character_identifier_to_unicode(font, code) ==
  CASE font = "Latin1" -> IF code <= 255 THEN <<code>> ELSE NoneStr
    [] font = "IdentityH" -> IF code > 255 THEN <<code>> ELSE NoneStr
    [] font = "Mixed" ->
         IF code \in {32, 65} THEN <<code>>
         ELSE IF code = 8224 THEN <<32>>
         ELSE IF code = 16705 THEN <<937>>
         ELSE NoneStr
    [] font = "Widthless" -> IF code <= 255 THEN <<code>> ELSE NoneStr
    [] font = "Ligature" ->
         IF code = 65 THEN <<102, 102, 105>>
         ELSE IF code = 32 THEN <<>>
         ELSE NoneStr
    [] OTHER -> NoneStr

\* Font.get_width(): Null stands for None
get_width(font, code) ==
  CASE font = "Latin1" -> IF code <= 255 THEN 500 ELSE Null
    [] font = "IdentityH" -> IF code > 255 THEN 1000 ELSE Null
    [] font = "Mixed" -> IF code \in {32, 65} THEN 250 ELSE IF code = 8224 THEN 800 ELSE Null
    [] font = "Ligature" -> IF code \in {32, 65} THEN 600 ELSE Null
    [] OTHER -> Null

(* ------------------------------ GlyphLine ------------------------------ *)
Glyph(character_code, unicode_str, width) ==
  [character_code |-> character_code, unicode_str |-> unicode_str, width |-> width]

\* mutant: a code without a width gets the width of the fallback glyph
WidthOrZero_fallback(font, code) == IF get_width(font, code) = Null THEN 250 ELSE get_width(font, code)

\* `font.get_width(code) or Decimal(0)`
WidthOrZero(font, code) == IF get_width(font, code) = Null THEN 0 ELSE get_width(font, code)

\* mutant: the loop advances by one byte after a two-byte glyph
AfterTwoByteGlyph_one_byte(i) == i + 1

\* `i += 2` after a glyph found by the two-byte lookup
AfterTwoByteGlyph(i) == i + 2

\* the loop of GlyphLine.__init__ from byte index i (0-based) on: one step
\* per glyph appended, with the index the step started at and the number of
\* bytes it advanced by
RECURSIVE GlyphLoop(_, _, _)
GlyphLoop(text_bytes, font, i) ==
  IF ~(i < Len(text_bytes)) THEN <<>>
  ELSE IF i + 1 < Len(text_bytes)
          /\ character_identifier_to_unicode(font, text_bytes[i + 1] * 256 + text_bytes[i + 2]) # NoneStr
       THEN <<[glyph |-> Glyph(text_bytes[i + 1] * 256 + text_bytes[i + 2],
                               character_identifier_to_unicode(font, text_bytes[i + 1] * 256 + text_bytes[i + 2]),
                               WidthOrZero(font, text_bytes[i + 1] * 256 + text_bytes[i + 2])),
                i |-> i, bytes |-> 2]>> \o GlyphLoop(text_bytes, font, AfterTwoByteGlyph(i))
       ELSE IF character_identifier_to_unicode(font, text_bytes[i + 1]) # NoneStr
       THEN <<[glyph |-> Glyph(text_bytes[i + 1],
                               character_identifier_to_unicode(font, text_bytes[i + 1]),
                               WidthOrZero(font, text_bytes[i + 1])),
                i |-> i, bytes |-> 1]>> \o GlyphLoop(text_bytes, font, i + 1)
       ELSE <<[glyph |-> Glyph(text_bytes[i + 1], <<REPLACEMENT>>, 250), i |-> i, bytes |-> 1]>>
            \o GlyphLoop(text_bytes, font, i + 1)

\* GlyphLine.__init__: the steps are the construction's trace, kept beside
\* the object's fields
GlyphLine(text_bytes, font, font_size, character_spacing, word_spacing, horizontal_scaling) ==
  LET steps == GlyphLoop(text_bytes, font, 0)
  IN [glyphs |-> [k \in 1..Len(steps) |-> steps[k].glyph],
      font |-> font,
      font_size |-> font_size,
      character_spacing |-> character_spacing,
      word_spacing |-> word_spacing,
      horizontal_scaling |-> horizontal_scaling]

\* GlyphLine.split(): what it returns (out) and the line it was called on
\* afterwards (self)
split(self) ==
  [self |-> self,
   out |-> [k \in 1..Len(self.glyphs) |->
              [GlyphLine(<<>>, self.font, self.font_size, self.character_spacing,
                         self.word_spacing, self.horizontal_scaling)
                 EXCEPT !.glyphs = <<self.glyphs[k]>>]]]

\* mutant: append() of a GlyphLine puts the new glyphs in front
append_front(self, glyph_or_glyphline) ==
  IF "character_code" \in DOMAIN glyph_or_glyphline
  THEN [self EXCEPT !.glyphs = Append(self.glyphs, glyph_or_glyphline)]
  ELSE [self EXCEPT !.glyphs = glyph_or_glyphline.glyphs \o self.glyphs]

\* GlyphLine.append(): self afterwards, which is also what it returns
append(self, glyph_or_glyphline) ==
  IF "character_code" \in DOMAIN glyph_or_glyphline
  THEN [self EXCEPT !.glyphs = Append(self.glyphs, glyph_or_glyphline)]
  ELSE [self EXCEPT !.glyphs = self.glyphs \o glyph_or_glyphline.glyphs]

\* appending the lines of a list, in order, to the line self
RECURSIVE AppendAll(_, _)
AppendAll(self, lines) ==
  IF lines = <<>> THEN self ELSE AppendAll(append(self, Head(lines)), Tail(lines))

IsSpaceCodes == {9, 10, 11, 12, 13, 32}
_isspace(c) == c \in IsSpaceCodes

\* GlyphLine.get_text()
RECURSIVE JoinText(_)
JoinText(glyphs) ==
  IF glyphs = <<>> THEN <<>> ELSE Head(glyphs).unicode_str \o JoinText(Tail(glyphs))

get_text(self) == JoinText(self.glyphs)

\* `len(g.get_unicode_str()) == 1 and GlyphLine._isspace(g.get_unicode_str())`
WordSpacingApplies(g) == Len(g.unicode_str) = 1 /\ _isspace(g.unicode_str[1])

\* one pass of the loop of get_width_in_text_space(): the glyph's
\* contribution to w
GlyphWidthInTextSpace(self, g) ==
  DecAdd(DecTimesPercent(
           DecAdd(DecTimesInt(g.width * self.font_size, Decimal_0_001),
                  IF WordSpacingApplies(g) THEN Dec(self.word_spacing) ELSE Dec(0)),
           self.horizontal_scaling),
         Dec(self.character_spacing))

RECURSIVE WidthLoop(_, _, _)
WidthLoop(self, k, w) ==
  IF k > Len(self.glyphs) THEN w
  ELSE WidthLoop(self, k + 1, DecAdd(w, GlyphWidthInTextSpace(self, self.glyphs[k])))

\* GlyphLine.get_width_in_text_space()
get_width_in_text_space(self) == DecSub(WidthLoop(self, 1, Dec(0)), Dec(self.character_spacing))

(* --------------------------- GlyphLine inputs --------------------------- *)
MaxGlyphBytes == 3

\* the bytes text is made of here: 0, space and `A`
GlyphBytes == {0, 32, 65}

BytesUpTo(n) == UNION {[1..k -> GlyphBytes] : k \in 0..n}

\* integer-valued text state scalars
FontSizes == {10, 12}
CharacterSpacings == {0, 1}
WordSpacings == {0, 2}
HorizontalScalings == {50, 100}

GlyphArgs ==
  [text_bytes : BytesUpTo(MaxGlyphBytes), font : Fonts, font_size : FontSizes,
   character_spacing : CharacterSpacings, word_spacing : WordSpacings,
   horizontal_scaling : HorizontalScalings]

NoArgs ==
  [text_bytes |-> <<>>, font |-> "none", font_size |-> 0, character_spacing |-> 0,
   word_spacing |-> 0, horizontal_scaling |-> 0]

\* no GlyphLine constructed yet
NoLine == [GlyphLine(<<>>, "none", 0, 0, 0, 0) EXCEPT !.glyphs = <<>>]

\* what the latest GlyphLine method returned
NoGlyphResult ==
  [op |-> "none", before |-> NoLine, out |-> <<>>, joined |-> NoLine,
   width |-> Dec(0), text |-> <<>>]

\* a glyph a caller may append: a tab of width 300
TabGlyph == Glyph(9, <<9>>, 300)

GlyphInit ==
  /\ gargs \in GlyphArgs
  /\ gline = NoLine
  /\ gtrace = <<>>
  /\ gres = NoGlyphResult

\* no GlyphLine in use
GlyphIdle ==
  /\ gargs = NoArgs
  /\ gline = NoLine
  /\ gtrace = <<>>
  /\ gres = NoGlyphResult

(* --------------------------- TextRenderEvent --------------------------- *)
\* Decimal(0.01), built from the float 0.01; its relative excess over 1/100
\* is that of Decimal(0.001) over 1/1000
DecTimesHundredth(d) == [n |-> d.n \div 100, x |-> (d.x + d.n) \div 100]

LineSegment(x0, y0, x1, y1) == [x0 |-> x0, y0 |-> y0, x1 |-> x1, y1 |-> y1]

\* a 2D affine transform <<a, b, c, d, e, f>> with integer entries applied
\* to the point (x, y): (a x + c y + e, b x + d y + f)
TransformX(m, x, y) == DecAdd(DecAdd(DecTimesInt(m[1], x), DecTimesInt(m[3], y)), Dec(m[5]))
TransformY(m, x, y) == DecAdd(DecAdd(DecTimesInt(m[2], x), DecTimesInt(m[4], y)), Dec(m[6]))

\* LineSegment.transform_by(matrix)
transform_by(ls, m) ==
  LineSegment(TransformX(m, ls.x0, ls.y0), TransformY(m, ls.x0, ls.y0),
              TransformX(m, ls.x1, ls.y1), TransformY(m, ls.x1, ls.y1))

\* a glyph of the event's glyph line: its text and its width
EventGlyph(unicode, width) == [unicode |-> unicode, width |-> width]

\* `g == " "` of split_on_glyphs(): the glyph is a space
GlyphIsSpace(g) == g.unicode = <<32>>

\* the loop body of _get_pdf_string_width_in_text_space()
CharacterWidth(graphics_state, g) ==
  DecAdd(DecTimesPercent(
           DecAdd(DecTimesInt(g.width * graphics_state.font_size, Decimal_0_001),
                  IF g.unicode = <<32>> THEN Dec(graphics_state.word_spacing) ELSE Dec(0)),
           graphics_state.horizontal_scaling),
         Dec(graphics_state.character_spacing))

RECURSIVE TotalWidthLoop(_, _, _, _)
TotalWidthLoop(graphics_state, glyphs, k, total_width) ==
  IF k > Len(glyphs) THEN total_width
  ELSE TotalWidthLoop(graphics_state, glyphs, k + 1,
                      DecAdd(total_width, CharacterWidth(graphics_state, glyphs[k])))

_get_pdf_string_width_in_text_space(graphics_state, glyphs) ==
  DecSub(TotalWidthLoop(graphics_state, glyphs, 1, Dec(0)), Dec(graphics_state.character_spacing))

\* TextRenderEvent._get_baseline()
_get_baseline(graphics_state, glyphs, matrix) ==
  transform_by(LineSegment(Dec(0), Dec(graphics_state.text_rise),
                           _get_pdf_string_width_in_text_space(graphics_state, glyphs),
                           Dec(graphics_state.text_rise)),
               matrix)

\* TextRenderEvent.__init__; glyph_line is what the font built from
\* raw_bytes and the graphics state's matrix stands for text_matrix.mul(ctm)
TextRenderEvent(graphics_state, raw_bytes, glyph_line) ==
  [graphics_state |-> graphics_state,
   raw_bytes |-> raw_bytes,
   glyph_line |-> glyph_line,
   text_to_user_space_transform_matrix |-> graphics_state.matrix,
   font_family |-> graphics_state.font_name,
   font_ascent |-> graphics_state.font_ascent,
   font_size |-> graphics_state.font_size,
   font_color |-> graphics_state.non_stroke_color,
   character_spacing |-> graphics_state.character_spacing,
   space_character_width |->
     DecTimesHundredth(DecTimesInt(graphics_state.horizontal_scaling,
                         DecTimesInt(graphics_state.font_size,
                           DecTimesInt(graphics_state.space_character_width_estimate,
                                       Decimal_0_001)))),
   baseline |-> _get_baseline(graphics_state, glyph_line, graphics_state.matrix)]

\* the glyph line the font builds from String(" ")
SpaceLine(graphics_state) == <<EventGlyph(<<32>>, graphics_state.space_character_width_estimate)>>

\* mutant: word spacing is scaled with the glyph width, as it is in
\* _get_pdf_string_width_in_text_space()
SegmentLength_scaled_word_spacing(self, g) ==
  DecAdd(DecTimesPercent(
           DecAdd(DecTimesInt(g.width * self.graphics_state.font_size, Decimal_0_001),
                  IF GlyphIsSpace(g) THEN Dec(self.graphics_state.word_spacing) ELSE Dec(0)),
           self.graphics_state.horizontal_scaling),
         Dec(self.graphics_state.character_spacing))

\* `w` of split_on_glyphs(): the length of the glyph's segment
SegmentLength(self, g) ==
  DecAdd(DecAdd(DecTimesPercent(DecTimesInt(g.width * self.graphics_state.font_size, Decimal_0_001),
                                self.graphics_state.horizontal_scaling),
                IF GlyphIsSpace(g) THEN Dec(self.graphics_state.word_spacing) ELSE Dec(0)),
         Dec(self.graphics_state.character_spacing))

\* mutant: every segment starts at x = 0
NextPrevX_reset(prev_x, w) == Dec(0)

\* `prev_x += w`
NextPrevX(prev_x, w) == DecAdd(prev_x, w)

\* the loop of split_on_glyphs() from the k-th glyph on: per glyph the new
\* event and, beside it, the segment it had before transform_by()
RECURSIVE SplitLoop(_, _, _)
SplitLoop(self, k, prev_x) ==
  IF k > Len(self.glyph_line) THEN <<>>
  ELSE <<[event |->
            [TextRenderEvent(self.graphics_state, <<32>>, SpaceLine(self.graphics_state))
               EXCEPT !.glyph_line = <<self.glyph_line[k]>>,
                      !.text_to_user_space_transform_matrix = self.text_to_user_space_transform_matrix,
                      !.font_size = self.font_size,
                      !.font_color = self.font_color,
                      !.font_family = self.font_family,
                      !.font_ascent = self.font_ascent,
                      !.space_character_width = self.space_character_width,
                      !.baseline =
                        transform_by(
                          LineSegment(prev_x, Dec(self.graphics_state.text_rise),
                                      DecAdd(prev_x, SegmentLength(self, self.glyph_line[k])),
                                      Dec(self.graphics_state.text_rise)),
                          self.text_to_user_space_transform_matrix)],
           text_space |->
             LineSegment(prev_x, Dec(self.graphics_state.text_rise),
                         DecAdd(prev_x, SegmentLength(self, self.glyph_line[k])),
                         Dec(self.graphics_state.text_rise))]>>
       \o SplitLoop(self, k + 1, NextPrevX(prev_x, SegmentLength(self, self.glyph_line[k])))

\* TextRenderEvent.split_on_glyphs()
split_on_glyphs(self) == SplitLoop(self, 1, Dec(0))

(* ------------------------ TextRenderEvent inputs ------------------------ *)
MaxEventGlyphs == 3

\* `A`, a space, a glyph without width, and a no-break space as wide as
\* the space
EventGlyphs ==
  {EventGlyph(<<65>>, 500), EventGlyph(<<32>>, 250), EventGlyph(<<776>>, 0),
   EventGlyph(<<160>>, 250)}

GlyphsUpTo(n) == UNION {[1..k -> EventGlyphs] : k \in 0..n}

\* identity, a translation, a scaling with translation, a quarter turn
Matrices == {<<1, 0, 0, 1, 0, 0>>, <<1, 0, 0, 1, 5, 7>>, <<2, 0, 0, 2, 1, 0>>, <<0, 1, 0 - 1, 0, 0, 0>>}

GraphicsStates ==
  [font_size : {12}, horizontal_scaling : {50, 100}, word_spacing : {0, 2},
   character_spacing : {0 - 1, 0, 1}, text_rise : {0, 3}, matrix : Matrices,
   font_name : {"Helvetica"}, font_ascent : {718}, non_stroke_color : {"black"},
   space_character_width_estimate : {250}]

EventArgs == [graphics_state : GraphicsStates, glyph_line : GlyphsUpTo(MaxEventGlyphs)]

NoGraphicsState ==
  [font_size |-> 0, horizontal_scaling |-> 0, word_spacing |-> 0, character_spacing |-> 0,
   text_rise |-> 0, matrix |-> <<1, 0, 0, 1, 0, 0>>, font_name |-> "none", font_ascent |-> 0,
   non_stroke_color |-> "none", space_character_width_estimate |-> 0]

NoEventArgs == [graphics_state |-> NoGraphicsState, glyph_line |-> <<>>]

NoEvent == [TextRenderEvent(NoGraphicsState, <<>>, <<>>) EXCEPT !.font_family = "no event"]

EventInit ==
  /\ evargs \in EventArgs
  /\ ev = NoEvent
  /\ evres = <<>>
  /\ evop = "none"

\* no TextRenderEvent in use
EventIdle ==
  /\ evargs = NoEventArgs
  /\ ev = NoEvent
  /\ evres = <<>>
  /\ evop = "none"

(* --------------------------- LineRenderEvent --------------------------- *)
\* a < b for Decimals: the excess decides between equal exact parts
DecLess(a, b) == a.n < b.n \/ (a.n = b.n /\ a.x < b.x)

DecMin(a, b) == IF DecLess(b, a) THEN b ELSE a
DecMax(a, b) == IF DecLess(a, b) THEN b ELSE a
DecAbs(d) == IF DecLess(d, Dec(0)) THEN [n |-> 0 - d.n, x |-> 0 - d.x] ELSE d

\* round(d, 1): to the nearest multiple of 0.1, a tie to the even one
DecRound1(d) ==
  LET u == Scale \div 10
      q == d.n \div u
      rest == d.n - q * u
      up == \/ 2 * rest > u
            \/ 2 * rest = u /\ (d.x > 0 \/ (d.x = 0 /\ q % 2 = 1))
  IN [n |-> (IF up THEN q + 1 ELSE q) * u, x |-> 0]

\* mutant: the threshold is the whole space width
Times090Less_whole(space_width, delta) == DecLess(space_width, delta)

\* `space_width * Decimal(0.90) < delta` for a rounded space_width:
\* Decimal(0.90) is 0.9000000000000000222..., so at 9/10 of the width
\* exactly the product is on the far side of delta (coordinates of a line's
\* events are exact decimals here, delta has no excess of its own)
Times090Less(space_width, delta) ==
  \/ 9 * space_width.n < 10 * delta.n
  \/ 9 * space_width.n = 10 * delta.n /\ space_width.n < 0 /\ delta.x >= 0

\* what a TextRenderEvent shows a line: get_text(), get_baseline(),
\* get_space_character_width_in_text_space(), get_font_ascent(), get_font_size()
ContainedEvent(text, baseline, space_character_width, font_ascent, font_size) ==
  [text |-> text, baseline |-> baseline, space_character_width |-> space_character_width,
   font_ascent |-> font_ascent, font_size |-> font_size]

startswith_space(text) == Len(text) > 0 /\ text[1] = 32
endswith_space(text) == Len(text) > 0 /\ text[Len(text)] = 32

RightOf(e) == DecMax(e.baseline.x0, e.baseline.x1)

\* the loop of LineRenderEvent.get_text() from the k-th event on; self is
\* the line's list contained_events
RECURSIVE LineTextLoop(_, _, _, _)
LineTextLoop(self, k, text, right) ==
  IF k > Len(self) THEN text
  ELSE IF startswith_space(self[k].text) \/ endswith_space(text)
       THEN LineTextLoop(self, k + 1, text \o self[k].text,
                         RightOf(self[k]))
       ELSE LineTextLoop(self, k + 1,
                         text
                         \o (IF Times090Less(DecRound1(self[k].space_character_width),
                                             DecAbs(DecSub(right, self[k].baseline.x0)))
                             THEN <<32>> ELSE <<>>)
                         \o self[k].text,
                         RightOf(self[k]))

\* LineRenderEvent.get_text()
line_get_text(self) ==
  LineTextLoop(self, 1, <<>>,
               DecMin(self[1].baseline.x0, self[1].baseline.x1))

\* mutant: max_x stays what it was set to before the loop
MaxX_initial(max_x, e) == max_x

\* `max_x = max(max_x, e.get_baseline().x0, e.get_baseline().x1)`
MaxX(max_x, e) == DecMax(DecMax(max_x, e.baseline.x0), e.baseline.x1)

\* `min_x = min(min_x, e.get_baseline().x0, e.get_baseline().x1)`
MinX(min_x, e) == DecMin(DecMin(min_x, e.baseline.x0), e.baseline.x1)

\* the loop of LineRenderEvent.get_baseline() from the k-th event on
RECURSIVE BaselineLoop(_, _, _, _)
BaselineLoop(self, k, min_x, max_x) ==
  IF k > Len(self)
  THEN LineSegment(min_x, self[1].baseline.y0, max_x, self[1].baseline.y0)
  ELSE BaselineLoop(self, k + 1, MinX(min_x, self[k]),
                    MaxX(max_x, self[k]))

\* mutant: the loop starts at the second event
line_get_baseline_from_second(self) ==
  BaselineLoop(self, 2,
               DecMin(self[1].baseline.x0, self[1].baseline.x1),
               DecMin(self[1].baseline.x0, self[1].baseline.x1))

\* LineRenderEvent.get_baseline(): min_x and max_x both start as the
\* smaller x of the first event
line_get_baseline(self) ==
  BaselineLoop(self, 1,
               DecMin(self[1].baseline.x0, self[1].baseline.x1),
               DecMin(self[1].baseline.x0, self[1].baseline.x1))

Rectangle(x, y, width, height) == [x |-> x, y |-> y, width |-> width, height |-> height]

\* `x.get_font_ascent() * Decimal(0.001) * x.get_font_size()`
AscentOf(e) == DecTimesInt(e.font_size, DecTimesInt(e.font_ascent, Decimal_0_001))

RECURSIVE MaxAscent(_, _)
MaxAscent(self, k) ==
  IF k = 1 THEN AscentOf(self[1])
  ELSE DecMax(MaxAscent(self, k - 1), AscentOf(self[k]))

\* LineRenderEvent.get_bounding_box()
line_get_bounding_box(self) ==
  Rectangle(line_get_baseline(self).x0,
            line_get_baseline(self).y0,
            DecAbs(DecSub(line_get_baseline(self).x1,
                          line_get_baseline(self).x0)),
            MaxAscent(self, Len(self)))

(* ------------------------ LineRenderEvent inputs ------------------------ *)
MaxLineEvents == 2

\* a decimal number given in units of 1 / Scale
Exact(n) == [n |-> n, x |-> 0]

\* 0.25 * (1 + 2 r): what TextRenderEvent computes for a space of 0.25
\* with its two float literals
QuarterWithExcess == [n |-> 25000, x |-> 50000]

\* first events: `A` from 0 to 1, the same drawn right to left, a space, an
\* `A` on another line in a smaller font, and an event without text drawn
\* right to left; all end at x = 1
FirstEvents ==
  {ContainedEvent(<<>>, LineSegment(Exact(100000), Exact(0), Exact(50000), Exact(0)), Exact(20000), 718, 12)}
  \cup
  {ContainedEvent(<<65>>, LineSegment(Exact(0), Exact(0), Exact(100000), Exact(0)), Exact(20000), 718, 12),
   ContainedEvent(<<65>>, LineSegment(Exact(100000), Exact(0), Exact(0), Exact(0)), Exact(20000), 718, 12),
   ContainedEvent(<<32>>, LineSegment(Exact(50000), Exact(0), Exact(100000), Exact(0)), Exact(20000), 718, 12),
   ContainedEvent(<<65>>, LineSegment(Exact(0), Exact(500000), Exact(100000), Exact(500000)), Exact(20000), 683, 10)}

\* where a later event starts, relative to x = 1, and its space width:
\* gaps of 0, 90, 95 and 120 percent of widths that rounding to one decimal
\* keeps (0.2), raises (0.26, 0.06, 0.25 with excess), lowers (0.25) or
\* that are zero
GapsAndWidths ==
  {<<0, Exact(20000)>>, <<18000, Exact(20000)>>, <<19000, Exact(20000)>>,
   <<24000, Exact(20000)>>, <<0 - 19000, Exact(20000)>>,
   <<24700, Exact(26000)>>, <<31200, Exact(26000)>>,
   <<5700, Exact(6000)>>, <<7200, Exact(6000)>>,
   <<0, Exact(0)>>,
   <<23750, Exact(25000)>>, <<23750, QuarterWithExcess>>, <<30000, QuarterWithExcess>>}

LaterEvents ==
  {ContainedEvent(text, LineSegment(Exact(100000 + gw[1]), Exact(y), Exact(100000 + gw[1] + len), Exact(y)),
                  gw[2], 718, 12) :
     text \in {<<66>>, <<32>>}, gw \in GapsAndWidths, len \in {50000, 0 - 50000}, y \in {0, 500000}}
  \cup
  \* events without text, and `B` after a space, at gaps of 0 and of 120 percent
  {ContainedEvent(text, LineSegment(Exact(100000 + gap), Exact(0), Exact(100000 + gap), Exact(0)),
                  Exact(20000), 718, 12) :
     text \in {<<>>, <<32, 66>>}, gap \in {0, 24000}}

\* the lists of contained events: a first event and up to MaxLineEvents - 1
\* later ones
EventLists ==
  UNION {{<<f>> \o rest : f \in FirstEvents, rest \in [1..k -> LaterEvents]} :
           k \in 0..(MaxLineEvents - 1)}

NoLineResult ==
  [op |-> "none", text |-> <<>>,
   baseline |-> LineSegment(Dec(0), Dec(0), Dec(0), Dec(0)),
   box |-> Rectangle(Dec(0), Dec(0), Dec(0), Dec(0))]

LineInit ==
  /\ contained_events \in EventLists
  /\ lres = NoLineResult

\* no LineRenderEvent in use
LineIdle ==
  /\ contained_events = <<>>
  /\ lres = NoLineResult

(* ------------------------- LeftToRightComparator ------------------------ *)
\* the greatest k with k * 5 <= |d| for a Decimal d, and whether d < 0
FivesIn(d) ==
  LET neg == d.n < 0 \/ (d.n = 0 /\ d.x < 0)
      a == IF neg THEN [n |-> 0 - d.n, x |-> 0 - d.x] ELSE d
      k == a.n \div (5 * Scale)
  IN [neg |-> neg, k |-> IF a.n = k * 5 * Scale /\ a.x < 0 /\ k > 0 THEN k - 1 ELSE k]

\* `y - y % 5` for a Decimal y: the remainder of Decimals has the sign of
\* y, so the result is the multiple of 5 next to y on the side of zero
QuantizeY(y) ==
  IF FivesIn(y).neg THEN Exact(0 - FivesIn(y).k * 5 * Scale) ELSE Exact(FivesIn(y).k * 5 * Scale)

\* what cmp() reads of an event: get_baseline().x0 and get_baseline().y0
BaselineStart(x0, y0) == [x0 |-> x0, y0 |-> y0]

\* `-(y0_round - y1_round)`
BandOrder(y0_round, y1_round) == DecSub(Dec(0), DecSub(y0_round, y1_round))

\* mutant: two events are on one line when their heights differ by less
\* than 5
cmp_within_five(o0, o1) ==
  IF DecLess(DecAbs(DecSub(o0.y0, o1.y0)), Exact(5 * Scale))
  THEN DecSub(o0.x0, o1.x0)
  ELSE BandOrder(QuantizeY(o0.y0), QuantizeY(o1.y0))

\* LeftToRightComparator.cmp()
cmp(o0, o1) ==
  IF QuantizeY(o0.y0) = QuantizeY(o1.y0)
  THEN DecSub(o0.x0, o1.x0)
  ELSE BandOrder(QuantizeY(o0.y0), QuantizeY(o1.y0))

(* --------------------- LeftToRightComparator inputs --------------------- *)
\* baseline-start heights: the 101, 104 and 95 of the specification, heights
\* around zero and below it, and a height a float excess below 100
Heights ==
  {Exact(10100000), Exact(10400000), Exact(9500000), Exact(10000000),
   [n |-> 10000000, x |-> 0 - 1],
   Exact(300000), Exact(0), Exact(0 - 300000), Exact(0 - 500000), Exact(0 - 700000)}

Lefts == {Exact(0), Exact(1000000), Exact(2500000)}

ComparedEvents == {BaselineStart(x, y) : x \in Lefts, y \in Heights}

NoCompared == BaselineStart(Exact(0), Exact(0))

\* what a call of cmp() left: its result and its two locals
CmpResult(op, value, y0_round, y1_round) ==
  [op |-> op, value |-> value, y0_round |-> y0_round, y1_round |-> y1_round]

NoCmpResult == CmpResult("none", Dec(0), Dec(0), Dec(0))

\* the results of the calls a sort of three events makes
NoOrder == [op |-> "none", aa |-> Dec(0), ab |-> Dec(0), ba |-> Dec(0), bc |-> Dec(0), ac |-> Dec(0)]

CmpInit ==
  /\ obj0 \in ComparedEvents
  /\ obj1 \in ComparedEvents
  /\ obj2 \in ComparedEvents
  /\ cmpres = NoCmpResult
  /\ order = NoOrder

\* no comparison in progress
CmpIdle ==
  /\ obj0 = NoCompared
  /\ obj1 = NoCompared
  /\ obj2 = NoCompared
  /\ cmpres = NoCmpResult
  /\ order = NoOrder

(* ---------------------------- state machine --------------------------- *)
\* the outcome of an operation, as kept in `last`
Outcome_(op, from, ret, token, p, byte_offset, value) ==
  [op |-> op, from |-> from, ret |-> ret, token |-> token, pos |-> p,
   byte_offset |-> byte_offset, value |-> value]

NoOutcome == Outcome_("none", 0, "none", NoToken, 0, Null, Null)

\* a caller that only tokenizes
FreeCaller == [pc |-> "free", p |-> Null, T |-> NoOutcome]

\* a tokenizer freshly constructed over a byte source positioned at 0;
\* history is the caller's record of the calls made so far
TokInit ==
  /\ input \in Inputs
  /\ pos = 0
  /\ history = <<>>
  /\ last = NoOutcome
  /\ look = FreeCaller

\* no tokenizer in use
TokIdle ==
  /\ input = <<>>
  /\ pos = 0
  /\ history = <<>>
  /\ last = NoOutcome
  /\ look = FreeCaller

\* only one component is in use
TokOnly == GlyphIdle /\ EventIdle /\ LineIdle /\ CmpIdle
GlyphOnly == TokIdle /\ EventIdle /\ LineIdle /\ CmpIdle
EventOnly == TokIdle /\ GlyphIdle /\ LineIdle /\ CmpIdle
LineOnly == TokIdle /\ GlyphIdle /\ EventIdle /\ CmpIdle
CmpOnly == TokIdle /\ GlyphIdle /\ EventIdle /\ LineIdle

Init ==
  /\ TokInit
  /\ TokOnly

\* one call of next_token(): the caller notes where the cursor was, how many
\* whitespace bytes were dropped and what came back
NextToken ==
  /\ Len(history) < MaxCalls
  /\ look.pc \in {"free", "told", "rewound"}
  /\ LET c == CallRecord(input, pos)
         o == Outcome_("next_token", pos, c.ret, c.token, c.pos, c.byte_offset, Null)
     IN /\ pos' = c.pos
        /\ history' = Append(history, c)
        /\ last' = o
        /\ look' = IF look.pc = "told" THEN [look EXCEPT !.pc = "peeked", !.T = o]
                   ELSE IF look.pc = "rewound" THEN [look EXCEPT !.pc = "done"]
                   ELSE look
  /\ UNCHANGED <<input, notTokVars>>

\* one call of next_non_comment_token(); the next_token() calls it makes are
\* logged in history like any other
NextNonCommentToken ==
  /\ Len(history) < MaxCalls
  /\ look.pc = "free"
  /\ LET calls == next_non_comment_token(input, pos)
         t == calls[Len(calls)]
     IN /\ pos' = t.pos
        /\ history' = history \o calls
        /\ last' = Outcome_("next_non_comment_token", pos, t.ret, t.token, t.pos,
                            t.byte_offset, Len(calls))
  /\ UNCHANGED <<input, look, notTokVars>>

Next == NextToken \/ NextNonCommentToken

Spec == Init /\ [][Next]_vars

(* Lookahead-and-rewind: a caller positions the cursor, notes tell(), reads  *)
(* one token ahead, seeks back to the noted position and reads again.       *)
MaxRewindLen == 2

RewindInputs == SeqsUpTo(MaxRewindLen) \cup Examples

SeekOffsets == (0 - 1)..MaxLen

RewindInit ==
  /\ TokOnly
  /\ input \in RewindInputs
  /\ pos = 0
  /\ history = <<>>
  /\ last = NoOutcome
  /\ look = [pc |-> "start", p |-> Null, T |-> NoOutcome]

\* tokenizer.tell(): the caller notes the position
Tell ==
  /\ look.pc = "start"
  /\ last' = Outcome_("tell", pos, "value", NoToken, pos, Null, tell(pos))
  /\ look' = [look EXCEPT !.pc = "told", !.p = tell(pos)]
  /\ UNCHANGED <<input, pos, history, notTokVars>>

\* tokenizer.seek(offset, whence): any seek while positioning, the absolute
\* seek to the noted position when rewinding
Seek ==
  /\ look.pc \in {"start", "peeked"}
  /\ \E offset \in SeekOffsets \cup {look.p}, whence \in {SEEK_SET, SEEK_CUR, SEEK_END} :
       /\ whence = SEEK_SET => offset >= 0
       /\ look.pc = "peeked" => offset = look.p /\ whence = SEEK_SET
       /\ seek(input, pos, offset, whence) <= Len(input) + 1
       /\ pos' = seek(input, pos, offset, whence)
       /\ last' = Outcome_("seek", pos, "value", NoToken, pos', Null, pos')
  /\ look' = IF look.pc = "peeked" THEN [look EXCEPT !.pc = "rewound"] ELSE look
  /\ UNCHANGED <<input, history, notTokVars>>

NextRewind == Tell \/ Seek \/ NextToken

SpecRewind == RewindInit /\ [][NextRewind]_vars

(* ------------------------ GlyphLine state machine ----------------------- *)
InitGlyph ==
  /\ GlyphInit
  /\ GlyphOnly

\* GlyphLine(text_bytes, font, font_size, ...)
Construct ==
  /\ gline = NoLine /\ gres.op = "none"
  /\ gline' = GlyphLine(gargs.text_bytes, gargs.font, gargs.font_size,
                        gargs.character_spacing, gargs.word_spacing,
                        gargs.horizontal_scaling)
  /\ gtrace' = GlyphLoop(gargs.text_bytes, gargs.font, 0)
  /\ gres' = [NoGlyphResult EXCEPT !.op = "init"]
  /\ UNCHANGED <<gargs, notGlyphVars>>

\* line.split()
Split ==
  /\ gres.op # "none"
  /\ gline' = split(gline).self
  /\ gres' = [NoGlyphResult EXCEPT !.op = "split", !.before = gline, !.out = split(gline).out]
  /\ UNCHANGED <<gargs, gtrace, notGlyphVars>>

\* the parts of a split appended, in order, to a new empty line
AppendParts ==
  /\ gres.op = "split"
  /\ gres' = [gres EXCEPT !.op = "append",
                          !.joined = AppendAll(GlyphLine(<<>>, gline.font, gline.font_size,
                                                         gline.character_spacing, gline.word_spacing,
                                                         gline.horizontal_scaling),
                                               gres.out)]
  /\ UNCHANGED <<gargs, gline, gtrace, notGlyphVars>>

\* line.append(glyph)
AppendGlyph ==
  /\ gres.op # "none"
  /\ Len(gline.glyphs) < MaxGlyphBytes
  /\ gline' = append(gline, TabGlyph)
  /\ gres' = [NoGlyphResult EXCEPT !.op = "append_glyph", !.before = gline]
  /\ UNCHANGED <<gargs, gtrace, notGlyphVars>>

\* line.get_width_in_text_space()
GetWidthInTextSpace ==
  /\ gres.op # "none"
  /\ gres' = [NoGlyphResult EXCEPT !.op = "get_width_in_text_space", !.before = gline,
                                   !.width = get_width_in_text_space(gline)]
  /\ UNCHANGED <<gargs, gline, gtrace, notGlyphVars>>

\* line.get_text()
GetText ==
  /\ gres.op # "none"
  /\ gres' = [NoGlyphResult EXCEPT !.op = "get_text", !.before = gline, !.text = get_text(gline)]
  /\ UNCHANGED <<gargs, gline, gtrace, notGlyphVars>>

NextGlyph ==
  \/ Construct
  \/ Split
  \/ AppendParts
  \/ AppendGlyph
  \/ GetWidthInTextSpace
  \/ GetText

SpecGlyph == InitGlyph /\ [][NextGlyph]_vars

(* --------------------- TextRenderEvent state machine -------------------- *)
InitEvent ==
  /\ EventInit
  /\ EventOnly

\* TextRenderEvent(graphics_state, raw_bytes)
NewTextRenderEvent ==
  /\ evop = "none"
  /\ ev' = TextRenderEvent(evargs.graphics_state,
                           [k \in 1..Len(evargs.glyph_line) |-> evargs.glyph_line[k].unicode[1]],
                           evargs.glyph_line)
  /\ evop' = "init"
  /\ UNCHANGED <<evargs, evres, notEventVars>>

\* event.split_on_glyphs()
SplitOnGlyphs ==
  /\ evop = "init"
  /\ evres' = split_on_glyphs(ev)
  /\ evop' = "split_on_glyphs"
  /\ UNCHANGED <<evargs, ev, notEventVars>>

NextEvent == NewTextRenderEvent \/ SplitOnGlyphs

SpecEvent == InitEvent /\ [][NextEvent]_vars

(* --------------------- LineRenderEvent state machine -------------------- *)
InitLine ==
  /\ LineInit
  /\ LineOnly

\* line.get_text()
LineGetText ==
  /\ Len(contained_events) > 0
  /\ lres' = [NoLineResult EXCEPT !.op = "get_text", !.text = line_get_text(contained_events)]
  /\ UNCHANGED <<contained_events, notLineVars>>

\* line.get_baseline()
LineGetBaseline ==
  /\ Len(contained_events) > 0
  /\ lres' = [NoLineResult EXCEPT !.op = "get_baseline",
                                  !.baseline = line_get_baseline(contained_events)]
  /\ UNCHANGED <<contained_events, notLineVars>>

\* line.get_bounding_box()
LineGetBoundingBox ==
  /\ Len(contained_events) > 0
  /\ lres' = [NoLineResult EXCEPT !.op = "get_bounding_box",
                                  !.baseline = line_get_baseline(contained_events),
                                  !.box = line_get_bounding_box(contained_events)]
  /\ UNCHANGED <<contained_events, notLineVars>>

NextLine == LineGetText \/ LineGetBaseline \/ LineGetBoundingBox

SpecLine == InitLine /\ [][NextLine]_vars

(* ------------------ LeftToRightComparator state machine ----------------- *)
InitCmp ==
  /\ CmpInit
  /\ CmpOnly

\* LeftToRightComparator.cmp(obj0, obj1)
Cmp ==
  /\ cmpres.op = "none" /\ order.op = "none"
  /\ cmpres' = CmpResult("cmp", cmp(obj0, obj1), QuantizeY(obj0.y0), QuantizeY(obj1.y0))
  /\ UNCHANGED <<obj0, obj1, obj2, order, notCmpVars>>

\* the same two events compared the other way round
CmpSwapped ==
  /\ cmpres.op = "none" /\ order.op = "none"
  /\ obj0' = obj1
  /\ obj1' = obj0
  /\ cmpres' = CmpResult("cmp", cmp(obj1, obj0), QuantizeY(obj1.y0), QuantizeY(obj0.y0))
  /\ UNCHANGED <<obj2, order, notCmpVars>>

\* the calls of cmp() a sort may make of three events
CmpThree ==
  /\ cmpres.op = "none" /\ order.op = "none"
  /\ order' = [op |-> "cmp", aa |-> cmp(obj0, obj0), ab |-> cmp(obj0, obj1),
               ba |-> cmp(obj1, obj0), bc |-> cmp(obj1, obj2), ac |-> cmp(obj0, obj2)]
  /\ UNCHANGED <<obj0, obj1, obj2, cmpres, notCmpVars>>

NextCmp == Cmp \/ CmpSwapped \/ CmpThree

SpecCmp == InitCmp /\ [][NextCmp]_vars

(* ============================== claims ================================ *)
Calls == 1..Len(history)

Offsets == 0..(Len(input) - 1)

\* no call made so far has raised
NoErrorRaised == \A k \in Calls : history[k].ret \in {"token", "none"}

\* call k dropped the byte at offset i as leading whitespace
SkippedBy(k, i) == history[k].from <= i /\ i < history[k].from + history[k].ws

\* the byte at offset i lies in the span of the token call k returned
InTokenOf(k, i) ==
  /\ history[k].ret = "token"
  /\ history[k].token.byte_offset <= i
  /\ i < history[k].token.byte_offset + Len(history[k].token.text)

\* how many times the calls so far have accounted for the byte at offset i
CoverCount(i) ==
  Cardinality({k \in Calls : SkippedBy(k, i)}) + Cardinality({k \in Calls : InTokenOf(k, i)})

\* C1: on an input that raised no error, no byte is ever covered twice by
\* the token spans and the skipped whitespace, and once next_token() has
\* returned the end-of-stream sentinel every byte is covered exactly once.
C1_EveryByteExactlyOnce ==
  NoErrorRaised =>
    /\ \A i \in Offsets : CoverCount(i) <= 1
    /\ (Len(history) > 0 /\ history[Len(history)].ret = "none")
         => \A i \in Offsets : CoverCount(i) = 1

\* a run over whitespace, a pushed-back delimiter and two tokens that has
\* reached the sentinel
C1_Witness ==
  /\ NoErrorRaised
  /\ Len(history) >= 3
  /\ history[Len(history)].ret = "none"
  /\ \E k \in Calls : history[k].ws > 0
  /\ \E k \in Calls : history[k].ret = "token" /\ history[k].token.token_type = "NAME"
                      /\ history[k].pos < Len(input)

\* offset of the first non-whitespace byte at or after offset p, Len(input)
\* when only whitespace is left
FirstNonWhitespace(p) ==
  CHOOSE s \in p..Len(input) :
    /\ s = Len(input) \/ input[s + 1] \notin {0, 9, 10, 12, 13, 32}
    /\ \A i \in p..(s - 1) : input[i + 1] \in {0, 9, 10, 12, 13, 32}

\* call k was made with byte b as the first non-whitespace byte ahead
StartsAt(k, b) ==
  LET s == FirstNonWhitespace(history[k].from)
  IN s < Len(input) /\ input[s + 1] = b

\* C2: a call made with one or more whitespace bytes and nothing else left
\* returns the end-of-stream sentinel, not a token.
C2_WhitespaceThenSentinel ==
  \A k \in Calls :
    (history[k].from < Len(input) /\ FirstNonWhitespace(history[k].from) = Len(input))
      => history[k].ret = "none"

(* Reference reading of a parenthesized string opened at offset s.        *)
\* length of the run of backslashes that ends just before offset i
BackslashRun(s, i) ==
  CHOOSE n \in 0..(i - s - 1) :
    /\ \A j \in (i - n)..(i - 1) : input[j + 1] = BACKSLASH
    /\ i - n - 1 = s \/ input[i - n] # BACKSLASH

\* the byte at offset i is the second byte of a backslash escape
Escaped(s, i) == BackslashRun(s, i) % 2 = 1

\* the nesting counter after the byte at offset i
Depth(s, i) ==
  1 + Cardinality({j \in (s + 1)..i : input[j + 1] = LPAREN /\ ~Escaped(s, j)})
    - Cardinality({j \in (s + 1)..i : input[j + 1] = RPAREN /\ ~Escaped(s, j)})

HasClose(s) == \E i \in (s + 1)..(Len(input) - 1) : Depth(s, i) = 0

\* offset of the `)` that first brings the counter to 0
Close(s) ==
  CHOOSE i \in (s + 1)..(Len(input) - 1) :
    Depth(s, i) = 0 /\ \A j \in (s + 1)..(i - 1) : Depth(s, j) # 0

\* the string opened at s never closes and the last byte of the stream is a
\* backslash that starts an escape
DanglingEscape(s) ==
  /\ ~HasClose(s)
  /\ Len(input) - 1 > s
  /\ input[Len(input)] = BACKSLASH
  /\ ~Escaped(s, Len(input) - 1)

\* C3: a string that ends on a dangling backslash at end of stream raises
\* PDFSyntaxError carrying a byte offset, not PDFEOFError.
C3_DanglingEscapeIsSyntaxError ==
  \A k \in Calls :
    (StartsAt(k, LPAREN) /\ DanglingEscape(FirstNonWhitespace(history[k].from)))
      => history[k].ret = "PDFSyntaxError" /\ history[k].byte_offset # Null

\* C4: a string whose nesting never closes (and that does not end on a
\* dangling backslash) raises PDFEOFError and returns no token; every STRING
\* token that is emitted is closed.
C4_UnterminatedStringIsEOFError ==
  /\ \A k \in Calls :
       LET s == FirstNonWhitespace(history[k].from)
       IN (StartsAt(k, LPAREN) /\ ~HasClose(s) /\ ~DanglingEscape(s))
            => history[k].ret = "PDFEOFError" /\ history[k].token = NoToken
  /\ \A k \in Calls :
       (history[k].ret = "token" /\ history[k].token.token_type = "STRING")
         => /\ HasClose(history[k].token.byte_offset)
            /\ Len(history[k].token.text)
                 = Close(history[k].token.byte_offset) - history[k].token.byte_offset + 1

\* the documented "(unterminated" case: opened, bytes read, stream exhausted
C4_Witness ==
  /\ input = ExUnterminated
  /\ Len(history) = 1
  /\ history[1].ret = "PDFEOFError"
  /\ pos = Len(input)

\* C5: when the first non-whitespace byte is `>`, the call returns END_DICT
\* `>>` exactly when the very next byte is `>`; otherwise (another byte, or
\* end of stream) it raises PDFSyntaxError whose byte_offset is the cursor
\* position at detection and returns no token.  END_DICT arises no other way.
C5_EndDictOrSyntaxError ==
  /\ \A k \in Calls :
       LET s == FirstNonWhitespace(history[k].from)
       IN StartsAt(k, GT) =>
            IF s + 1 < Len(input) /\ input[s + 2] = GT
            THEN /\ history[k].ret = "token"
                 /\ history[k].token = Token(s, "END_DICT", <<GT, GT>>)
            ELSE /\ history[k].ret = "PDFSyntaxError"
                 /\ history[k].token = NoToken
                 /\ history[k].byte_offset # Null
                 /\ history[k].byte_offset = history[k].pos
                 /\ history[k].byte_offset = IF s + 1 < Len(input) THEN s + 2 ELSE s + 1
  /\ \A k \in Calls :
       (history[k].ret = "token" /\ history[k].token.token_type = "END_DICT")
         => /\ StartsAt(k, GT)
            /\ history[k].token.byte_offset = FirstNonWhitespace(history[k].from)

\* both outcomes have occurred in one run: `>>` gave END_DICT and a later
\* `>` not followed by `>` raised
C5_Witness ==
  /\ \E k \in Calls : /\ history[k].ret = "token"
                      /\ history[k].token.token_type = "END_DICT"
                      /\ history[k].token.text = <<GT, GT>>
  /\ \E k \in Calls : /\ history[k].ret = "PDFSyntaxError"
                      /\ StartsAt(k, GT)
                      /\ history[k].byte_offset = history[k].pos

\* C6: every returned token has non-empty text and its byte_offset is the
\* offset of the input byte that is the first character of that text.
C6_OffsetOfFirstCharacter ==
  \A k \in Calls :
    history[k].ret = "token" =>
      /\ Len(history[k].token.text) > 0
      /\ history[k].token.byte_offset \in Offsets
      /\ input[history[k].token.byte_offset + 1] = history[k].token.text[1]

\* the delimiter table of the tokenizer's contract: whitespace and % ( ) / < > [ ]
ContractDelimiters == {0, 9, 10, 12, 13, 32, 37, 40, 41, 47, 60, 62, 91, 93}

\* the token returned by call k and the offset just past its text
TokenOf(k) == history[k].token

EndOf(k) == history[k].token.byte_offset + Len(history[k].token.text)

IsToken(k, token_type) ==
  history[k].ret = "token" /\ history[k].token.token_type = token_type

\* the first n call outcomes, as <<kind, byte_offset, text>>; "none" for the sentinel
Outcome(k) ==
  IF history[k].ret = "token"
  THEN <<history[k].token.token_type, history[k].token.byte_offset, history[k].token.text>>
  ELSE <<history[k].ret>>

\* C7: a call that meets `/` returns a NAME token; a NAME token's text is `/`
\* followed by the maximal run of non-delimiter bytes, the delimiter that
\* ends it is left under the cursor for the next call, and `/Foo/Bar` gives
\* NAME `/Foo` at 0, NAME `/Bar` at 4, then the sentinel.
C7_NameIsMaximalRun ==
  /\ \A k \in Calls :
       StartsAt(k, SLASH) =>
         IsToken(k, "NAME") /\ TokenOf(k).byte_offset = FirstNonWhitespace(history[k].from)
  /\ \A k \in Calls :
       IsToken(k, "NAME") =>
         /\ Len(TokenOf(k).text) >= 1
         /\ TokenOf(k).text[1] = SLASH
         /\ TokenOf(k).text = SubSeq(input, TokenOf(k).byte_offset + 1, EndOf(k))
         /\ \A j \in 2..Len(TokenOf(k).text) : TokenOf(k).text[j] \notin ContractDelimiters
         /\ EndOf(k) < Len(input) => input[EndOf(k) + 1] \in ContractDelimiters
         /\ history[k].pos = EndOf(k)
         /\ k + 1 \in Calls => history[k + 1].from = EndOf(k)
  /\ (input = ExFooBar /\ Len(history) >= 3) =>
       /\ Outcome(1) = <<"NAME", 0, <<47, 70, 111, 111>> >>
       /\ Outcome(2) = <<"NAME", 4, <<47, 66, 97, 114>> >>
       /\ Outcome(3) = <<"none">>

\* `/Foo/Bar` tokenized to the sentinel
C7_Witness ==
  /\ input = ExFooBar
  /\ Len(history) = 3
  /\ IsToken(1, "NAME") /\ IsToken(2, "NAME")
  /\ history[1].pos = 4
  /\ history[3].ret = "none"

\* the bytes of "-+.0123456789"
ContractNumberClass == {43, 45, 46, 48, 49, 50, 51, 52, 53, 54, 55, 56, 57}

\* C8: a call that meets a byte of the class -+.0123456789 returns a NUMBER
\* token there; a NUMBER token's text is the maximal run of class bytes that
\* starts at its byte_offset, the byte that ends the run is left under the
\* cursor, `123.45` gives one NUMBER `123.45` and `[1 2]` gives START_ARRAY,
\* NUMBER `1`, NUMBER `2`, END_ARRAY, then the sentinel.
C8_NumberIsMaximalRun ==
  /\ \A k \in Calls :
       LET s == FirstNonWhitespace(history[k].from)
       IN (s < Len(input) /\ input[s + 1] \in ContractNumberClass) =>
            IsToken(k, "NUMBER") /\ TokenOf(k).byte_offset = s
  /\ \A k \in Calls :
       IsToken(k, "NUMBER") =>
         /\ TokenOf(k).text = SubSeq(input, TokenOf(k).byte_offset + 1, EndOf(k))
         /\ \A j \in 1..Len(TokenOf(k).text) : TokenOf(k).text[j] \in ContractNumberClass
         /\ EndOf(k) < Len(input) =>
              input[EndOf(k) + 1] \notin ContractNumberClass /\ history[k].pos = EndOf(k)
         /\ EndOf(k) = Len(input) => history[k].pos = Len(input)
  /\ (input = ExNumber /\ Len(history) >= 2) =>
       /\ Outcome(1) = <<"NUMBER", 0, <<49, 50, 51, 46, 52, 53>> >>
       /\ Outcome(2) = <<"none">>
  /\ (input = ExArray /\ Len(history) >= 5) =>
       /\ Outcome(1) = <<"START_ARRAY", 0, <<91>> >>
       /\ Outcome(2) = <<"NUMBER", 1, <<49>> >>
       /\ Outcome(3) = <<"NUMBER", 3, <<50>> >>
       /\ Outcome(4) = <<"END_ARRAY", 4, <<93>> >>
       /\ Outcome(5) = <<"none">>

\* what holds of the code in place of C8: the same for the NUMBER tokens with
\* non-empty text
C8_NonEmptyNumberIsMaximalRun ==
  /\ \A k \in Calls :
       LET s == FirstNonWhitespace(history[k].from)
       IN (s < Len(input) /\ input[s + 1] \in ContractNumberClass) =>
            IsToken(k, "NUMBER") /\ TokenOf(k).byte_offset = s
  /\ \A k \in Calls :
       (IsToken(k, "NUMBER") /\ Len(TokenOf(k).text) > 0) =>
         /\ TokenOf(k).text = SubSeq(input, TokenOf(k).byte_offset + 1, EndOf(k))
         /\ \A j \in 1..Len(TokenOf(k).text) : TokenOf(k).text[j] \in ContractNumberClass
         /\ EndOf(k) < Len(input) =>
              input[EndOf(k) + 1] \notin ContractNumberClass /\ history[k].pos = EndOf(k)
         /\ EndOf(k) = Len(input) => history[k].pos = Len(input)
  /\ (input = ExNumber /\ Len(history) >= 2) =>
       /\ Outcome(1) = <<"NUMBER", 0, <<49, 50, 51, 46, 52, 53>> >>
       /\ Outcome(2) = <<"none">>
  /\ (input = ExArray /\ Len(history) >= 5) =>
       /\ Outcome(1) = <<"START_ARRAY", 0, <<91>> >>
       /\ Outcome(2) = <<"NUMBER", 1, <<49>> >>
       /\ Outcome(3) = <<"NUMBER", 3, <<50>> >>
       /\ Outcome(4) = <<"END_ARRAY", 4, <<93>> >>
       /\ Outcome(5) = <<"none">>

\* what holds of the code in place of C6: the same for the tokens with
\* non-empty text, whose text is also the input at its span
C6_NonEmptyTokenOffset ==
  \A k \in Calls :
    (history[k].ret = "token" /\ Len(TokenOf(k).text) > 0) =>
      /\ TokenOf(k).byte_offset \in Offsets
      /\ input[TokenOf(k).byte_offset + 1] = TokenOf(k).text[1]
      /\ TokenOf(k).text = SubSeq(input, TokenOf(k).byte_offset + 1, EndOf(k))
      /\ history[k].pos = EndOf(k)

\* offset of the last byte of a hex string opened at s: the first `>` after
\* s, or the last byte of the stream when there is none
HexEnd(s) ==
  IF \E i \in (s + 1)..(Len(input) - 1) : input[i + 1] = GT
  THEN CHOOSE i \in (s + 1)..(Len(input) - 1) :
         input[i + 1] = GT /\ \A j \in (s + 1)..(i - 1) : input[j + 1] # GT
  ELSE Len(input) - 1

\* C9: when the first non-whitespace byte is `<`, `<<` gives START_DICT, `<>`
\* the empty HEX_STRING, and anything else a HEX_STRING whose text runs from
\* `<` through the first `>`, or to the end of the stream when there is no
\* `>`, without an error; `<<>>` gives START_DICT, END_DICT, then the sentinel.
C9_HexStringOrDict ==
  /\ \A k \in Calls :
       LET s == FirstNonWhitespace(history[k].from)
       IN StartsAt(k, LT) =>
            IF s + 1 < Len(input) /\ input[s + 2] = LT
            THEN Outcome(k) = <<"START_DICT", s, <<LT, LT>> >> /\ history[k].pos = s + 2
            ELSE IF s + 1 < Len(input) /\ input[s + 2] = GT
            THEN Outcome(k) = <<"HEX_STRING", s, <<LT, GT>> >> /\ history[k].pos = s + 2
            ELSE /\ Outcome(k) = <<"HEX_STRING", s, SubSeq(input, s + 1, HexEnd(s) + 1)>>
                 /\ history[k].pos = HexEnd(s) + 1
  /\ (input = ExDict /\ Len(history) >= 3) =>
       /\ Outcome(1) = <<"START_DICT", 0, <<LT, LT>> >>
       /\ Outcome(2) = <<"END_DICT", 2, <<GT, GT>> >>
       /\ Outcome(3) = <<"none">>

\* a START_DICT followed by a hex string cut short by the end of the stream
C9_Witness ==
  /\ \E k \in Calls : IsToken(k, "START_DICT")
  /\ \E k \in Calls : /\ IsToken(k, "HEX_STRING")
                      /\ TokenOf(k).text[Len(TokenOf(k).text)] # GT
                      /\ history[k].pos = Len(input)

\* C10: a call that meets `(` of a string that closes returns a STRING token;
\* a STRING token's text is the input from its `(` through the first `)`
\* that brings the nesting counter to 0, escapes counted as content, and the
\* cursor is left just after that `)`.
C10_StringEndsAtMatchingClose ==
  /\ \A k \in Calls :
       LET s == FirstNonWhitespace(history[k].from)
       IN (StartsAt(k, LPAREN) /\ HasClose(s)) =>
            IsToken(k, "STRING") /\ TokenOf(k).byte_offset = s
  /\ \A k \in Calls :
       IsToken(k, "STRING") =>
         LET s == TokenOf(k).byte_offset
         IN /\ HasClose(s)
            /\ TokenOf(k).text = SubSeq(input, s + 1, Close(s) + 1)
            /\ history[k].pos = Close(s) + 1
  /\ (input = ExEscaped /\ Len(history) >= 2) =>
       /\ Outcome(1) = <<"STRING", 0, ExEscaped>>
       /\ Outcome(2) = <<"none">>

\* `(a\)b)` read as one STRING that runs past the escaped `)`
C10_Witness ==
  /\ input = ExEscaped
  /\ Len(history) = 2
  /\ IsToken(1, "STRING")
  /\ history[1].pos = 6
  /\ history[2].ret = "none"

(* ---------------------- next_non_comment_token ------------------------ *)
\* from offset p on, every byte is whitespace or lies in a comment (from a
\* `%` up to, not including, the next CR or LF)
OnlyCommentsAndWhitespace(p) ==
  \A i \in p..(Len(input) - 1) :
    \/ input[i + 1] \in {0, 9, 10, 12, 13, 32}
    \/ \E c \in p..i : input[c + 1] = PERCENT /\ \A j \in c..i : input[j + 1] \notin {10, 13}

\* the latest operation was next_non_comment_token()
LastIsNonComment == last.op = "next_non_comment_token"

\* the next_token() calls that operation made: the last ones of history
LastCalls == (Len(history) - last.value + 1)..Len(history)

\* what next_non_comment_token() returned relates to the next_token() stream
\* as claimed: comments skipped, the first other outcome handed on, the
\* cursor left where that outcome left it
SkipsExactlyComments ==
  LastIsNonComment =>
    /\ last.value >= 1 /\ last.value <= Len(history)
    /\ history[Len(history) - last.value + 1].from = last.from
    /\ \A k \in LastCalls :
         IF k < Len(history)
         THEN IsToken(k, "COMMENT") /\ history[k + 1].from = history[k].pos
         ELSE /\ ~IsToken(k, "COMMENT")
              /\ last.ret = history[k].ret
              /\ last.token = history[k].token
              /\ last.pos = history[k].pos
              /\ pos = history[k].pos

\* C11: next_non_comment_token() never returns a COMMENT token; it returns
\* the first outcome of the next_token() stream that is not a COMMENT,
\* consuming the skipped comments and that token, and it returns the
\* end-of-stream sentinel when only comments and whitespace remain.
C11_NonCommentOrSentinel ==
  /\ LastIsNonComment => ~(last.ret = "token" /\ last.token.token_type = "COMMENT")
  /\ SkipsExactlyComments
  /\ (LastIsNonComment /\ OnlyCommentsAndWhitespace(last.from)) => last.ret = "none"

\* what holds of the code in place of C11: the same, with the sentinel
\* promised only when next_token() itself gives nothing but comments
C11_RelativeToNextToken ==
  /\ LastIsNonComment => ~(last.ret = "token" /\ last.token.token_type = "COMMENT")
  /\ SkipsExactlyComments
  /\ (LastIsNonComment /\ last.ret = "none") => OnlyCommentsAndWhitespace(last.from)

(* ------------------------ look-ahead and rewind ------------------------- *)

\* the caller has done p = tell(), next_token(), seek(p), next_token()
Rewound == look.pc = "done"

\* the second next_token() started at p and gave what the first one gave:
\* the same token (offset, kind and text) or the same other outcome, and
\* the same cursor afterwards
SameAfterRewind ==
  Rewound =>
    /\ last.op = "next_token" /\ last.from = look.p /\ look.T.from = look.p
    /\ last.ret = look.T.ret
    /\ last.token = look.T.token
    /\ last.byte_offset = look.T.byte_offset
    /\ last.pos = look.T.pos
    /\ pos = look.T.pos

\* tell() changes nothing and reports the cursor; seek() changes the cursor
\* only (the byte source keeps its bytes)
SeekTellFrame ==
  /\ last'.op = "tell" /\ last' # last => pos' = pos /\ input' = input /\ last'.value = pos
  /\ last'.op = "seek" /\ last' # last => input' = input /\ last'.value = pos'

\* C12: looking ahead and rewinding is faithful: after p = tell(), a
\* next_token() that returns T and leaves the cursor at q, and seek(p), the
\* next next_token() returns the same T and leaves the cursor at q again;
\* seek changes nothing but the cursor and tell changes nothing.
C12_RewindIsFaithful == [](SameAfterRewind) /\ [][SeekTellFrame]_vars

C12_Witness ==
  /\ Rewound /\ look.p > 0 /\ look.T.ret = "token"
  /\ look.T.pos > look.p /\ last.token = look.T.token
  /\ Len(last.token.text) > 0

(* ------------------------- GlyphLine construction ----------------------- *)

\* a GlyphLine has just been constructed from gargs
Constructed == gres.op = "init"

\* the steps of the construction that cover byte index j (0-based)
StepsCovering(j) == {k \in 1..Len(gtrace) : gtrace[k].i <= j /\ j < gtrace[k].i + gtrace[k].bytes}

\* the character code read at byte index i: one byte, or two bytes big-endian
CodeAt(i, n) ==
  IF n = 2 THEN gargs.text_bytes[i + 1] * 256 + gargs.text_bytes[i + 2]
  ELSE gargs.text_bytes[i + 1]

\* C13: GlyphLine construction covers every input byte exactly once, for
\* every byte sequence and every Font: glyphs come in source byte order, the
\* bytes consumed by the glyphs (2 for a glyph of the two-byte lookup, 1
\* otherwise) sum to the input length, and the construction ends without
\* raising, also for unmapped codes.
C13_GlyphsCoverEveryByteOnce ==
  /\ (gres.op = "none" /\ gargs # NoArgs) => ENABLED Construct
  /\ Constructed =>
       /\ Len(gline.glyphs) = Len(gtrace)
       /\ \A j \in 0..(Len(gargs.text_bytes) - 1) : Cardinality(StepsCovering(j)) = 1
       /\ \A k \in 1..Len(gtrace) :
            /\ gtrace[k].bytes \in {1, 2}
            /\ gtrace[k].i + gtrace[k].bytes <= Len(gargs.text_bytes)
            /\ gtrace[k].i = (IF k = 1 THEN 0 ELSE gtrace[k - 1].i + gtrace[k - 1].bytes)
            /\ gline.glyphs[k] = gtrace[k].glyph
            /\ gline.glyphs[k].character_code = CodeAt(gtrace[k].i, gtrace[k].bytes)
            /\ gtrace[k].bytes = 2 <=>
                 /\ gtrace[k].i + 1 < Len(gargs.text_bytes)
                 /\ character_identifier_to_unicode(gargs.font, CodeAt(gtrace[k].i, 2)) # NoneStr
       /\ (Len(gtrace) = 0 <=> Len(gargs.text_bytes) = 0)
       /\ Len(gtrace) > 0 =>
            gtrace[Len(gtrace)].i + gtrace[Len(gtrace)].bytes = Len(gargs.text_bytes)

\* a two-byte glyph followed by an unmapped byte that became U+FFFD
C13_Witness ==
  /\ Constructed
  /\ Len(gargs.text_bytes) = 3 /\ Len(gtrace) = 2
  /\ gtrace[1].bytes = 2
  /\ gtrace[2].bytes = 1 /\ gtrace[2].glyph.unicode_str = <<REPLACEMENT>>

\* the Font of C14: every code 0..255 maps to one character of width 500 and
\* no code above 255 is mapped
SingleByteFont(font) ==
  \A b \in 0..255 :
    /\ Len(character_identifier_to_unicode(font, b)) = 1
    /\ character_identifier_to_unicode(font, b) # NoneStr
    /\ get_width(font, b) = 500
    /\ character_identifier_to_unicode(font, 256 + b) = NoneStr
    /\ character_identifier_to_unicode(font, 32 * 256 + b) = NoneStr
    /\ character_identifier_to_unicode(font, 65 * 256 + b) = NoneStr

\* the text_bytes decoded byte by byte with the font
PerByteText(font, text_bytes) ==
  [k \in 1..Len(text_bytes) |-> character_identifier_to_unicode(font, text_bytes[k])[1]]

\* C14: with a Font that maps every single-byte code 0..255 to one character
\* of width 500 and maps no code above 255, GlyphLine produces exactly one
\* glyph per input byte, in order, and get_text() is the per-byte decoded
\* string, also when a 0 byte is followed by another byte.
C14_OneGlyphPerByte ==
  (Constructed /\ SingleByteFont(gargs.font)) =>
    /\ Len(gline.glyphs) = Len(gargs.text_bytes)
    /\ \A k \in 1..Len(gline.glyphs) :
         /\ k <= Len(gargs.text_bytes) => gline.glyphs[k].character_code = gargs.text_bytes[k]
         /\ gline.glyphs[k].width = 500
    /\ get_text(gline) = PerByteText(gargs.font, gargs.text_bytes)

\* what holds of the code in place of C14: the same for text without a 0
\* byte that is followed by another byte
C14_OneGlyphPerByteWithoutZero ==
  (/\ Constructed /\ SingleByteFont(gargs.font)
   /\ \A k \in 1..(Len(gargs.text_bytes) - 1) : gargs.text_bytes[k] # 0) =>
    /\ Len(gline.glyphs) = Len(gargs.text_bytes)
    /\ \A k \in 1..Len(gline.glyphs) : gline.glyphs[k].character_code = gargs.text_bytes[k]
    /\ get_text(gline) = PerByteText(gargs.font, gargs.text_bytes)

(* ----------------------------- split, append --------------------------- *)

\* get_text() of the lines of a list, concatenated
RECURSIVE TextsOf(_)
TextsOf(lines) == IF lines = <<>> THEN <<>> ELSE get_text(Head(lines)) \o TextsOf(Tail(lines))

\* C15: split() on a line with N glyphs returns exactly N lines, the i-th
\* holding exactly the i-th glyph of the original and the original's font,
\* font size, character spacing, word spacing and horizontal scaling; the
\* original is unchanged; the texts of the parts concatenated, and the parts
\* appended in order to an empty line, reproduce the original's glyphs.
C15_SplitGivesSingletons ==
  /\ gres.op \in {"split", "append"} =>
       /\ gline = gres.before
       /\ Len(gres.out) = Len(gres.before.glyphs)
       /\ \A k \in 1..Len(gres.out) :
            /\ gres.out[k].glyphs = <<gres.before.glyphs[k]>>
            /\ gres.out[k].font = gres.before.font
            /\ gres.out[k].font_size = gres.before.font_size
            /\ gres.out[k].character_spacing = gres.before.character_spacing
            /\ gres.out[k].word_spacing = gres.before.word_spacing
            /\ gres.out[k].horizontal_scaling = gres.before.horizontal_scaling
       /\ TextsOf(gres.out) = get_text(gres.before)
  /\ gres.op = "append" =>
       /\ gres.joined.glyphs = gres.before.glyphs
       /\ gres.joined = gline

\* a line of three glyphs, not all the same, split and joined again
C15_Witness ==
  /\ gres.op = "append"
  /\ Len(gline.glyphs) = 3 /\ Len(gres.out) = 3
  /\ gline.glyphs[1] # gline.glyphs[2]
  /\ gres.joined.glyphs = gline.glyphs

(* ------------------------ get_width_in_text_space ----------------------- *)

\* the whitespace characters of C16
IsOneWhitespace(text) == Len(text) = 1 /\ text[1] \in {9, 10, 11, 12, 13, 32}

\* (width * font_size / 1000 + word_spacing if whitespace) * horizontal_scaling / 100
\* of glyph g, in units of 1 / Scale
TermOf(line, g) ==
  (((g.width * line.font_size * Scale) \div 1000
    + (IF IsOneWhitespace(g.unicode_str) THEN line.word_spacing * Scale ELSE 0))
   * line.horizontal_scaling) \div 100

RECURSIVE SumOfTerms(_, _)
SumOfTerms(line, k) ==
  IF k = 0 THEN 0 ELSE SumOfTerms(line, k - 1) + TermOf(line, line.glyphs[k])

\* the width C16 states, as an exact number
StatedWidth(line) ==
  [n |-> SumOfTerms(line, Len(line.glyphs)) + (Len(line.glyphs) - 1) * line.character_spacing * Scale,
   x |-> 0]

WidthAsked == gres.op = "get_width_in_text_space"

\* C16: get_width_in_text_space() of a line with N >= 0 glyphs equals the
\* sum over its glyphs of ((width * font_size / 1000 + word_spacing if the
\* glyph's text is exactly one whitespace character of {9,10,11,12,13,32})
\* * horizontal_scaling / 100) plus (N - 1) * character_spacing; for zero
\* glyphs the result is -character_spacing.
C16_WidthIsStatedSum ==
  WidthAsked =>
    /\ gres.width = StatedWidth(gres.before)
    /\ Len(gres.before.glyphs) = 0 => gres.width = Dec(0 - gres.before.character_spacing)

\* what holds of the code in place of C16: the stated sum up to the excess
\* of the float literal in Decimal(0.001), which scales every glyph's
\* width * font_size term; character spacing counts N - 1 times and the
\* width of no glyphs is exactly -character_spacing
C16_WidthUpToFloatExcess ==
  WidthAsked =>
    /\ gres.width.n = StatedWidth(gres.before).n
    /\ gres.width.x >= 0
    /\ gres.width.x = 0 <=>
         \A k \in 1..Len(gres.before.glyphs) : gres.before.glyphs[k].width = 0
    /\ Len(gres.before.glyphs) = 0 => gres.width = Dec(0 - gres.before.character_spacing)

(* ---------------------------- split_on_glyphs --------------------------- *)

SplitDone == evop = "split_on_glyphs"

\* the text rise of the event that was split, as a Decimal
TextRise == Dec(ev.graphics_state.text_rise)

\* C17: split_on_glyphs() on an event whose glyph line has N glyphs returns
\* exactly N events in glyph order, each holding a singleton glyph line; the
\* text-space baseline segments form a contiguous chain: the first starts at
\* (0, text_rise), every later one starts where the previous one ended, and
\* all lie at y = text_rise before the per-glyph transform is applied.
C17_SplitChainIsContiguous ==
  SplitDone =>
    /\ Len(evres) = Len(ev.glyph_line)
    /\ \A k \in 1..Len(evres) :
         /\ evres[k].event.glyph_line = <<ev.glyph_line[k]>>
         /\ evres[k].text_space.y0 = TextRise
         /\ evres[k].text_space.y1 = TextRise
         /\ evres[k].text_space.x0 = (IF k = 1 THEN Dec(0) ELSE evres[k - 1].text_space.x1)
         /\ evres[k].event.baseline =
              transform_by(evres[k].text_space, ev.text_to_user_space_transform_matrix)
         /\ k > 1 =>
              /\ evres[k].event.baseline.x0 = evres[k - 1].event.baseline.x1
              /\ evres[k].event.baseline.y0 = evres[k - 1].event.baseline.y1
         /\ ev.text_to_user_space_transform_matrix = <<1, 0, 0, 1, 0, 0>> =>
              evres[k].event.baseline = evres[k].text_space

\* three glyphs, a space among them, a raised baseline and a transform that
\* is not the identity; the segments have different ends
C17_Witness ==
  /\ SplitDone
  /\ Len(evres) = 3
  /\ \E k \in 1..3 : ev.glyph_line[k].unicode = <<32>>
  /\ ev.graphics_state.text_rise # 0
  /\ ev.text_to_user_space_transform_matrix # <<1, 0, 0, 1, 0, 0>>
  /\ evres[1].text_space.x1 # evres[2].text_space.x1
  /\ evres[2].text_space.x1 # evres[3].text_space.x1

(* ------------------------ LineRenderEvent.get_text ---------------------- *)

\* get_text() was called on a line of two single-glyph events, neither text
\* beginning with a space
TwoGlyphsAsked ==
  /\ lres.op = "get_text"
  /\ Len(contained_events) = 2
  /\ \A k \in 1..2 : Len(contained_events[k].text) = 1 /\ contained_events[k].text[1] # 32

\* |right edge of the first - baseline x0 of the second|
Gap ==
  DecAbs(DecSub(DecMax(contained_events[1].baseline.x0, contained_events[1].baseline.x1),
                contained_events[2].baseline.x0))

\* the gap is p percent of the width w
GapIsPercentOf(p, w) == 100 * Gap.n = p * w.n /\ 100 * Gap.x = p * w.x

\* the texts of the two events with sep between them, after at most one
\* space inferred in front of the first
JoinedBy(sep) ==
  lres.text \in {contained_events[1].text \o sep \o contained_events[2].text,
                 <<32>> \o contained_events[1].text \o sep \o contained_events[2].text}

\* C18: get_text() on two adjacent single-glyph events (neither text begins
\* with a space) whose gap is 95% of the second event's estimated space width
\* inserts no space between their texts; with a gap of 120% of that width it
\* inserts exactly one. (Read for a space width above zero.)
C18_NoSpaceAt95OneAt120 ==
  (TwoGlyphsAsked /\ contained_events[2].space_character_width.n > 0) =>
    /\ GapIsPercentOf(95, contained_events[2].space_character_width) => JoinedBy(<<>>)
    /\ GapIsPercentOf(120, contained_events[2].space_character_width) => JoinedBy(<<32>>)

\* the second event's space width rounded to one decimal, half to even
RoundedWidth ==
  LET w == contained_events[2].space_character_width
      tenth == Scale \div 10
      below == (w.n \div tenth) * tenth
  IN IF w.n = below /\ w.x = 0 THEN w
     ELSE IF 2 * (w.n - below) < tenth THEN Exact(below)
     ELSE IF 2 * (w.n - below) > tenth THEN Exact(below + tenth)
     ELSE IF w.x > 0 THEN Exact(below + tenth)
     ELSE IF w.x < 0 THEN Exact(below)
     ELSE IF (below \div tenth) % 2 = 0 THEN Exact(below) ELSE Exact(below + tenth)

\* C18 as it holds: the threshold is 90% of the space width rounded to one
\* decimal. With that rounded width positive, a gap of 95% or of 120% of it
\* inserts exactly one space between the two texts, and a gap of at most 90%
\* of it inserts none.
C18_SpaceAbove90OfRoundedWidth ==
  (TwoGlyphsAsked /\ RoundedWidth.n > 0) =>
    /\ GapIsPercentOf(95, RoundedWidth) => JoinedBy(<<32>>)
    /\ GapIsPercentOf(120, RoundedWidth) => JoinedBy(<<32>>)
    /\ (10 * Gap.n <= 9 * RoundedWidth.n /\ Gap.x = 0) => JoinedBy(<<>>)

\* a gap of 95% of a space width of 0.2 got a space
C18_Witness ==
  /\ TwoGlyphsAsked
  /\ RoundedWidth.n > 0
  /\ RoundedWidth = contained_events[2].space_character_width
  /\ GapIsPercentOf(95, RoundedWidth)
  /\ lres.text = contained_events[1].text \o <<32>> \o contained_events[2].text

(* ---------------------- LineRenderEvent.get_baseline -------------------- *)

\* both x-endpoints of every contained event's baseline
Endpoints ==
  {contained_events[k].baseline.x0 : k \in 1..Len(contained_events)}
  \cup {contained_events[k].baseline.x1 : k \in 1..Len(contained_events)}

IsLeast(v) == v \in Endpoints /\ \A e \in Endpoints : ~DecLess(e, v)
IsGreatest(v) == v \in Endpoints /\ \A e \in Endpoints : ~DecLess(v, e)

\* C19: for every non-empty list of contained events get_baseline() returns
\* a horizontal segment with y0 = y1 = the first event's baseline y0, x0 the
\* minimum and x1 the maximum over both x-endpoints of every contained
\* event's baseline; so x0 <= x1 and the bounding-box width |x1 - x0| is
\* the true horizontal extent of the line.
C19_BaselineSpansAllEndpoints ==
  /\ lres.op \in {"get_baseline", "get_bounding_box"} =>
       /\ lres.baseline.y0 = contained_events[1].baseline.y0
       /\ lres.baseline.y1 = contained_events[1].baseline.y0
       /\ IsLeast(lres.baseline.x0)
       /\ IsGreatest(lres.baseline.x1)
       /\ ~DecLess(lres.baseline.x1, lres.baseline.x0)
  /\ lres.op = "get_bounding_box" =>
       /\ lres.box.x = lres.baseline.x0
       /\ lres.box.y = lres.baseline.y0
       /\ IsLeast(DecSub(lres.baseline.x1, lres.box.width))
       /\ IsGreatest(DecAdd(lres.baseline.x0, lres.box.width))
       /\ ~DecLess(lres.box.width, Dec(0))

\* a second event on another height, drawn right to left, that reaches
\* further right than the first
C19_Witness ==
  /\ lres.op = "get_bounding_box"
  /\ Len(contained_events) = 2
  /\ contained_events[2].baseline.y0 # contained_events[1].baseline.y0
  /\ DecLess(contained_events[2].baseline.x1, contained_events[2].baseline.x0)
  /\ lres.baseline.x1 = contained_events[2].baseline.x0
  /\ DecLess(contained_events[1].baseline.x1, lres.baseline.x1)

(* ------------------------- LeftToRightComparator ------------------------ *)

Compared == cmpres.op = "cmp"

\* the 5-unit band of a height: the greatest multiple of 5 that is <= y, in
\* units of 1 / Scale
Band(y) ==
  LET u == 5 * Scale
      k == y.n \div u
  IN IF y.n = k * u /\ y.x < 0 THEN (k - 1) * u ELSE k * u

Negative(d) == DecLess(d, Dec(0))
Positive(d) == DecLess(Dec(0), d)

\* within a band by ascending x, a lower band after a higher one
OrderedByBandThenX ==
  /\ Band(obj0.y0) = Band(obj1.y0) =>
       /\ Negative(cmpres.value) <=> DecLess(obj0.x0, obj1.x0)
       /\ cmpres.value = Dec(0) <=> obj0.x0 = obj1.x0
  /\ Band(obj0.y0) < Band(obj1.y0) => Positive(cmpres.value)
  /\ Band(obj0.y0) > Band(obj1.y0) => Negative(cmpres.value)

\* C20: cmp orders two events whose baseline-start y values fall in the same
\* 5-unit band (101 and 104, both quantized to 100) by ascending
\* baseline-start x (negative iff the first is further left, zero iff equal
\* x), and an event in a lower band (95) after any event in a higher band
\* regardless of x.
C20_BandThenLeftToRight == Compared => OrderedByBandThenX

\* what holds of the code in place of C20: the same for heights that are
\* not negative
C20_BandThenLeftToRightFromZero ==
  (Compared /\ ~Negative(obj0.y0) /\ ~Negative(obj1.y0)) => OrderedByBandThenX

(* ------------------------------ progress ------------------------------ *)

\* call k returned a token and left the cursor where the call found it
Stalled(k) == history[k].ret = "token" /\ history[k].pos <= history[k].from

\* C21: every next_token() call that returns a token leaves the cursor
\* strictly after the position it had when the call began (so the calls on
\* a finite input that raises no error reach the end-of-stream sentinel), a
\* stray `)` under the cursor included.
C21_EveryTokenAdvances == \A k \in Calls : ~Stalled(k)

\* what holds of the code in place of C21: a call stalls only on a `)`,
\* which no branch handles, and returns an OTHER token of empty text
C21_StallsOnlyOnUnhandledDelimiter ==
  \A k \in Calls :
    Stalled(k) =>
      /\ history[k].pos = history[k].from
      /\ history[k].ws = 0
      /\ history[k].from < Len(input)
      /\ input[history[k].from + 1] = RPAREN
      /\ TokenOf(k).token_type = "OTHER"
      /\ TokenOf(k).text = <<>>

(* ----------------------- greedy reference decoder ---------------------- *)

\* the Font maps the code to some text
Maps(font, code) == character_identifier_to_unicode(font, code) # NoneStr

\* the glyph of a mapped code: the mapped text and the Font's width, 0 if none
MappedGlyph(font, code) ==
  Glyph(code, character_identifier_to_unicode(font, code),
        IF get_width(font, code) = Null THEN 0 ELSE get_width(font, code))

\* the reference decoder at position i (0-based) of b: the glyph it emits
\* and the number of bytes it advances by
ReferenceStep(b, font, i) ==
  IF i + 2 <= Len(b) /\ Maps(font, b[i + 1] * 256 + b[i + 2])
  THEN [glyph |-> MappedGlyph(font, b[i + 1] * 256 + b[i + 2]), bytes |-> 2]
  ELSE IF Maps(font, b[i + 1])
       THEN [glyph |-> MappedGlyph(font, b[i + 1]), bytes |-> 1]
       ELSE [glyph |-> Glyph(b[i + 1], <<REPLACEMENT>>, 250), bytes |-> 1]

RECURSIVE ReferenceDecode(_, _, _)
ReferenceDecode(b, font, i) ==
  IF i >= Len(b) THEN <<>>
  ELSE <<ReferenceStep(b, font, i).glyph>>
         \o ReferenceDecode(b, font, i + ReferenceStep(b, font, i).bytes)

\* C22: GlyphLine construction equals the greedy two-byte-first reference
\* decoder at every position i: the glyph of the two-byte code and an advance
\* of 2 if at least two bytes remain and the Font maps b[i]*256+b[i+1]
\* (width 0 if the Font has none), otherwise the glyph of b[i] and an advance
\* of 1 if the Font maps b[i], otherwise the fallback glyph (code b[i],
\* U+FFFD, width 250) and an advance of 1.
C22_EqualsGreedyReferenceDecoder ==
  Constructed =>
    /\ gline.glyphs = ReferenceDecode(gargs.text_bytes, gargs.font, 0)
    /\ \A k \in 1..Len(gtrace) :
         /\ gtrace[k].glyph = ReferenceStep(gargs.text_bytes, gargs.font, gtrace[k].i).glyph
         /\ gtrace[k].bytes = ReferenceStep(gargs.text_bytes, gargs.font, gtrace[k].i).bytes

\* a two-byte code whose bytes are both mapped on their own and that has no
\* width, decoded as one glyph of width 0 and followed by a fallback glyph
C22_Witness ==
  /\ Constructed
  /\ Len(gline.glyphs) = 2
  /\ Maps(gargs.font, gargs.text_bytes[1]) /\ Maps(gargs.font, gargs.text_bytes[2])
  /\ gline.glyphs[1].character_code > 255
  /\ get_width(gargs.font, gline.glyphs[1].character_code) = Null
  /\ gline.glyphs[1].width = 0
  /\ gline.glyphs[2] = Glyph(gargs.text_bytes[3], <<REPLACEMENT>>, 250)

(* ------------------------- length of a segment ------------------------- *)

\* the length of the k-th segment split_on_glyphs() made, in text space
LengthOf(k) == DecSub(evres[k].text_space.x1, evres[k].text_space.x0)

\* glyph_width * font_size * 0.001 * (horizontal_scaling / 100) +
\* character_spacing for the k-th glyph, 0.001 being Decimal(0.001)
ScaledWidthPlusSpacing(k) ==
  DecAdd(DecTimesPercent(DecTimesInt(ev.glyph_line[k].width * ev.graphics_state.font_size,
                                     Decimal_0_001),
                         ev.graphics_state.horizontal_scaling),
         Dec(ev.graphics_state.character_spacing))

IsSpaceGlyph(k) == ev.glyph_line[k].unicode = <<32>>

TextAsked == lres.op = "get_text"

Events == 1..Len(contained_events)

\* `right` as event k meets it: max(x0, x1) of the previous event, min(x0, x1)
\* of the first event for the first
RightBefore(k) ==
  IF k = 1 THEN DecMin(contained_events[1].baseline.x0, contained_events[1].baseline.x1)
  ELSE DecMax(contained_events[k - 1].baseline.x0, contained_events[k - 1].baseline.x1)

\* w rounded to one decimal, half to even
RoundedToTenth(w) ==
  LET tenth == Scale \div 10
      below == (w.n \div tenth) * tenth
  IN IF w.n = below /\ w.x = 0 THEN w
     ELSE IF 2 * (w.n - below) < tenth THEN Exact(below)
     ELSE IF 2 * (w.n - below) > tenth THEN Exact(below + tenth)
     ELSE IF w.x > 0 THEN Exact(below + tenth)
     ELSE IF w.x < 0 THEN Exact(below)
     ELSE IF (below \div tenth) % 2 = 0 THEN Exact(below) ELSE Exact(below + tenth)

\* round(space_width(e), 1) * 0.90 < |right - e.baseline.x0| for event k
GapExceeds(k) ==
  LET w == RoundedToTenth(contained_events[k].space_character_width)
      delta == DecAbs(DecSub(RightBefore(k), contained_events[k].baseline.x0))
  IN DecLess([n |-> 9 * w.n, x |-> 9 * w.x], [n |-> 10 * delta.n, x |-> 10 * delta.x])

\* the text accumulated after the first k events, and whether a space is
\* inferred before event k, by the stated rule
RECURSIVE Accumulated(_)
Inferred(k) ==
  /\ ~(Len(contained_events[k].text) > 0 /\ contained_events[k].text[1] = 32)
  /\ ~(Len(Accumulated(k - 1)) > 0 /\ Accumulated(k - 1)[Len(Accumulated(k - 1))] = 32)
  /\ GapExceeds(k)

Accumulated(k) ==
  IF k = 0 THEN <<>>
  ELSE Accumulated(k - 1) \o (IF Inferred(k) THEN <<32>> ELSE <<>>) \o contained_events[k].text

\* where in the returned text the inferred spaces are
InferredAt == {Len(Accumulated(k - 1)) + 1 : k \in {j \in Events : Inferred(j)}}

\* the texts of the first k events, one after the other
RECURSIVE Concatenated(_)
Concatenated(k) == IF k = 0 THEN <<>> ELSE Concatenated(k - 1) \o contained_events[k].text

\* text without the characters at the positions in drop, from position i on
RECURSIVE Without(_, _, _)
Without(text, drop, i) ==
  IF i > Len(text) THEN <<>>
  ELSE (IF i \in drop THEN <<>> ELSE <<text[i]>>) \o Without(text, drop, i + 1)

\* the returned text follows the stated rule, and without its inferred
\* spaces it is the plain concatenation
TextByRule ==
  /\ lres.text = Accumulated(Len(contained_events))
  /\ Without(lres.text, InferredAt, 1) = Concatenated(Len(contained_events))

\* the inferred space at position p has no space beside it
NoSpaceBeside(p) ==
  /\ p > 1 => (p - 1 \in InferredAt \/ lres.text[p - 1] # 32)
  /\ p < Len(lres.text) => (p + 1 \in InferredAt \/ lres.text[p + 1] # 32)

\* C24: get_text() returns the contained events' texts concatenated in order
\* with at most one inferred space before each event's text: a space is
\* inserted before event e iff e's text does not begin with a space, the text
\* accumulated so far does not end with a space, and round(space_width(e), 1)
\* * 0.90 < |right - e.baseline.x0|. No inferred space is ever placed next to
\* an existing space, and removing the inferred spaces gives back the plain
\* concatenation.
C24_TextByRuleNoDoubleSpace ==
  TextAsked =>
    /\ TextByRule
    /\ \A p \in InferredAt : lres.text[p] = 32 /\ NoSpaceBeside(p)

\* what holds of the code in place of C24: the rule and the concatenation
\* always, and no space beside an inferred one when every event has text
C24_TextByRule ==
  TextAsked =>
    /\ TextByRule
    /\ \A p \in InferredAt : lres.text[p] = 32
    /\ (\A k \in Events : Len(contained_events[k].text) > 0)
         => \A p \in InferredAt : NoSpaceBeside(p)

(* --------------------------- a line of one event ------------------------ *)

SingleEvent == Len(contained_events) = 1

OnlyEvent == contained_events[1]

\* C25: for a LineRenderEvent containing exactly one event the aggregate
\* baseline's x-range collapses to that event's own minimum x: get_baseline()
\* returns x0 = x1 = min(event.x0, event.x1), giving a bounding box of width 0.
C25_SingleEventCollapses ==
  SingleEvent =>
    /\ lres.op = "get_baseline" =>
         /\ lres.baseline.x0 = DecMin(OnlyEvent.baseline.x0, OnlyEvent.baseline.x1)
         /\ lres.baseline.x1 = lres.baseline.x0
    /\ lres.op = "get_bounding_box" => lres.box.width = Dec(0)

\* C25 as it holds: for a LineRenderEvent containing exactly one event,
\* get_baseline() returns x0 = min(event.x0, event.x1) and x1 = max(event.x0,
\* event.x1) at the event's y0, and the bounding box starts at that x0 and
\* has the width |event.x1 - event.x0|.
C25_SingleEventSpansItself ==
  SingleEvent =>
    /\ lres.op = "get_baseline" =>
         /\ lres.baseline.x0 = DecMin(OnlyEvent.baseline.x0, OnlyEvent.baseline.x1)
         /\ lres.baseline.x1 = DecMax(OnlyEvent.baseline.x0, OnlyEvent.baseline.x1)
         /\ lres.baseline.y0 = OnlyEvent.baseline.y0
         /\ lres.baseline.y1 = OnlyEvent.baseline.y0
    /\ lres.op = "get_bounding_box" =>
         /\ lres.box.x = DecMin(OnlyEvent.baseline.x0, OnlyEvent.baseline.x1)
         /\ lres.box.width = DecAbs(DecSub(OnlyEvent.baseline.x1, OnlyEvent.baseline.x0))

\* the bounding box of a line of one event drawn right to left from 1 to 0
\* has width 1
C25_Witness ==
  /\ SingleEvent
  /\ lres.op = "get_bounding_box"
  /\ DecLess(OnlyEvent.baseline.x1, OnlyEvent.baseline.x0)
  /\ lres.box.x = OnlyEvent.baseline.x1
  /\ lres.box.width = Exact(100000)

(* ------------------------- cmp as a sorting order ----------------------- *)

ThreeCompared == order.op = "cmp"

Sign(d) == IF Negative(d) THEN 0 - 1 ELSE IF Positive(d) THEN 1 ELSE 0

\* C26: cmp is a consistent total (pre)order usable for sorting: for all
\* events a, b, c, sign(cmp(a, b)) = -sign(cmp(b, a)), cmp(a, a) = 0, and
\* cmp(a, b) <= 0 together with cmp(b, c) <= 0 implies cmp(a, c) <= 0;
\* cmp(a, b) = 0 holds exactly when a and b share a quantized band and a
\* baseline-start x.
C26_CmpIsTotalPreorder ==
  ThreeCompared =>
    /\ Sign(order.ab) = 0 - Sign(order.ba)
    /\ order.aa = Dec(0)
    /\ (Sign(order.ab) <= 0 /\ Sign(order.bc) <= 0) => Sign(order.ac) <= 0
    /\ order.ab = Dec(0) <=> (QuantizeY(obj0.y0) = QuantizeY(obj1.y0) /\ obj0.x0 = obj1.x0)

\* three events sorted: the first left of the second in one band around
\* zero, heights of different sign, the third in a lower band and left of both
C26_Witness ==
  /\ ThreeCompared
  /\ Negative(obj0.y0) /\ Positive(obj1.y0)
  /\ Negative(order.ab) /\ Positive(order.ba)
  /\ Negative(order.bc) /\ Negative(order.ac)
  /\ DecLess(obj2.x0, obj0.x0) /\ DecLess(obj0.x0, obj1.x0)

(* --------------------------- the quantized value ------------------------ *)

\* the least multiple of 5 that is >= y, in units of 1 / Scale
BandAbove(y) ==
  LET u == 5 * Scale
      k == y.n \div u
  IN IF y.n = k * u /\ y.x <= 0 THEN k * u ELSE (k + 1) * u

\* C27: for every baseline-start y held as a Decimal, negative values
\* included, the comparator's quantized value y - y % 5 is the greatest
\* multiple of 5 that is <= y; so two events with y = -3 and y = 3 fall in
\* different bands.
C27_QuantizedIsNextLowerMultiple ==
  Compared =>
    /\ cmpres.y0_round = Exact(Band(obj0.y0))
    /\ cmpres.y1_round = Exact(Band(obj1.y0))
    /\ (obj0.y0 = Exact(0 - 3 * Scale) /\ obj1.y0 = Exact(3 * Scale))
         => cmpres.y0_round # cmpres.y1_round

\* what holds of the code in place of C27: the quantized value is the
\* multiple of 5 next to y on the side of zero, the next-lower one for y >= 0
\* and the next-higher one for y < 0
C27_QuantizedTowardZero ==
  Compared =>
    /\ cmpres.y0_round = (IF Negative(obj0.y0) THEN Exact(BandAbove(obj0.y0))
                          ELSE Exact(Band(obj0.y0)))
    /\ cmpres.y1_round = (IF Negative(obj1.y0) THEN Exact(BandAbove(obj1.y0))
                          ELSE Exact(Band(obj1.y0)))

====
